---- MODULE Spec2Model ----
(***************************************************************************)
(* lillinput: libinput swipe gestures -> classified ActionEvent -> actions *)
(* (i3 IPC commands, shell commands).                                      *)
(*                                                                         *)
(* The sources hold two generations of the pipeline:                       *)
(*  - "controller": main_loop/process_event feed every swipe End to        *)
(*    DefaultController::receive_end_event, which classifies the           *)
(*    displacement by axis dominance and runs the registered actions;      *)
(*  - "processor": DefaultProcessor::dispatch processes the pending events *)
(*    with process_event, which classifies the displacement by octant      *)
(*    (with axis inversion), and returns the ActionEvents of the batch to  *)
(*    the controller, which runs the registered actions of each.           *)
(*                                                                         *)
(* f64 values are modelled exactly on the integers, with the sign of zero  *)
(* kept (IEEE -0.0), as [neg |-> BOOLEAN, mag |-> Nat].                    *)
(***************************************************************************)
EXTENDS Integers, Sequences, FiniteSets, TLC

VARIABLES
    generation,   \* which generation of the pipeline runs: "controller" | "processor"
    threshold,    \* DefaultProcessor.threshold / DefaultController.threshold
    invert_x,     \* DefaultProcessor.invert_x
    invert_y,     \* DefaultProcessor.invert_y
    settings,     \* Settings.actions: event name -> list of StringifiedAction
    actions,      \* DefaultController.actions: ActionEvent -> list of Action
    connection,   \* the shared Rc<RefCell<Option<I3Connection>>>: "None" | "Some"
    dx,           \* main loop's accumulated displacement, x axis
    dy,           \* main loop's accumulated displacement, y axis
    pc,           \* position of the program
    last,         \* observation of the last handler that ran
    swipe,        \* history: the updates summed since the last Begin
    connects,     \* history: the calls of I3Connection::connect() so far
    message_log,  \* the payloads of the requests the i3 endpoint has received
                  \* (in the tests: what init_listener stores)
    action_events \* the Vec<ActionEvent> that DefaultProcessor::dispatch collects

vars == <<generation, threshold, invert_x, invert_y, settings, actions,
          connection, dx, dy, pc, last, swipe, connects, message_log, action_events>>

(***************************************************************************)
(* Bounds of the model.                                                    *)
(***************************************************************************)
\* Largest |dx|, |dy| a direct call of the classifier is given.
MaxCoord == 6
\* Largest threshold a direct call of the classifier is configured with.
MaxThreshold == 5
\* Largest finger count reported by a swipe End.
MaxFingers == 5
\* Largest |dx|, |dy| the main loop accumulates.
MaxDisp == 3
\* Largest coordinate of the displacement when calls are repeated.
MaxRepeat == 2
\* Longest list of actions a controller is built with directly.
MaxActions == 2
\* Most calls of receive_end_event made on one controller in a row.
MaxEnds == 2
\* Most pieces of text an action string that is parsed on its own is made of.
MaxPieces == 4
\* the longest batch of gesture events handed to one call of dispatch
MaxBatch == 2
\* the most ActionEvents one call of dispatch collects: the batch it
\* processes ends with the End that yields the last of them
MaxActionEvents == 1
\* the most requests the i3 endpoint receives while the loop runs
MaxLog == 2

(***************************************************************************)
(* f64 on the integers, with signed zero.                                  *)
(***************************************************************************)
F(i) == IF i < 0 THEN [neg |-> TRUE, mag |-> -i] ELSE [neg |-> FALSE, mag |-> i]

NegZero == [neg |-> TRUE, mag |-> 0]

Val(f) == IF f.neg THEN -f.mag ELSE f.mag

\* f64 unary minus: flips the sign bit, of zero too.
FNeg(f) == [neg |-> ~f.neg, mag |-> f.mag]

\* f64 addition (round to nearest): the sum is -0.0 only for -0.0 + -0.0.
FAdd(a, b) ==
    IF a.mag = 0 /\ b.mag = 0 /\ a.neg /\ b.neg THEN NegZero
    ELSE F(Val(a) + Val(b))

Abs(i) == IF i < 0 THEN -i ELSE i

F64s(m) == {F(i) : i \in -m..m} \cup {NegZero}

(***************************************************************************)
(* ActionEvent, FingerCount.                                               *)
(***************************************************************************)
Directions ==
    <<"Left", "LeftUp", "Up", "RightUp", "Right", "RightDown", "Down", "LeftDown">>

FingerNames == [n \in {3, 4} |-> IF n = 3 THEN "ThreeFinger" ELSE "FourFinger"]

EventName(fingers, direction) == [fingers |-> fingers, direction |-> direction]

\* The 16 values of ActionEvent.
ActionEvent ==
    {EventName(FingerNames[n], Directions[i]) : n \in {3, 4}, i \in 1..8}

\* The 8 values of the earlier ActionEvent (axis-aligned swipes only).
AxisActionEvent ==
    {e \in ActionEvent : e.direction \in {"Left", "Right", "Up", "Down"}}

Ok(v) == [tag |-> "Ok", value |-> v]

UnsupportedFingerCount(n) == [tag |-> "UnsupportedFingerCount", finger_count |-> n]

DisplacementBelowThreshold(t) == [tag |-> "DisplacementBelowThreshold", threshold |-> t]

\* A panic of the thread (todo!(), unwrap() on None, index out of range).
Panic == [tag |-> "panic"]

\* A conversion that takes every count above 3 for four fingers.
FingerCount_try_from_lenient(value) ==
    IF value = 3 THEN Ok("ThreeFinger")
    ELSE IF value >= 4 THEN Ok("FourFinger")
    ELSE UnsupportedFingerCount(value)

\* FingerCount::try_from(i32)
FingerCount_try_from(value) ==
    IF value = 3 THEN Ok("ThreeFinger")
    ELSE IF value = 4 THEN Ok("FourFinger")
    ELSE UnsupportedFingerCount(value)

(***************************************************************************)
(* DefaultProcessor::_end_event_to_action_event (octant classifier).       *)
(***************************************************************************)
\* |b| < tan(22.5 deg) * |a|, a # 0: the vector (a, b) is within 22.5 degrees
\* of the a axis.  tan(22.5 deg) = sqrt(2) - 1, so the test is
\* (|a| + |b|)^2 < 2 a^2; equality never holds on the integers.
Near(a, b) == a # 0 /\ (Abs(a) + Abs(b)) * (Abs(a) + Abs(b)) < 2 * a * a

\* The angle without the unary minus: dy.atan2(-dx).
RoundedAngle_no_negation(fdx, fdy) ==
    LET u == -Val(fdx)
        v == Val(fdy)
    IN  IF u = 0 /\ v = 0 THEN IF fdx.neg THEN 0 ELSE 4
        ELSE IF Near(u, v) THEN (IF u > 0 THEN (IF v < 0 THEN 8 ELSE 0) ELSE 4)
        ELSE IF Near(v, u) THEN (IF v > 0 THEN 2 ELSE 6)
        ELSE IF u > 0 THEN (IF v > 0 THEN 1 ELSE 7)
        ELSE (IF v > 0 THEN 3 ELSE 5)

\* The angle truncated instead of rounded: (angle * 8.0) as i8.
RoundedAngle_truncated(fdx, fdy) ==
    LET u == -Val(fdx)
        v == -Val(fdy)
    IN  IF u = 0 /\ v = 0 THEN IF fdx.neg THEN 0 ELSE 4
        ELSE IF v >= 0
        THEN (IF u > 0 /\ v < u THEN 0
              ELSE IF u > 0 THEN 1
              ELSE IF v > -u THEN 2
              ELSE IF v > 0 THEN 3
              ELSE 4)
        ELSE (IF u < 0 /\ -v < -u THEN 4
              ELSE IF u < 0 THEN 5
              ELSE IF -v > u THEN 6
              ELSE 7)

\* (angle * 8.0).round() for angle = -dy.atan2(-dx), plus 2 PI when negative,
\* over 2 PI.  The unary minus applies to the result of atan2, so angle is the
\* polar angle of (u, v) = (-dx, -dy) as a fraction of the turn, in [0, 1];
\* the rounded value is in 0..8.
RoundedAngle(fdx, fdy) ==
    LET u == -Val(fdx)
        v == -Val(fdy)
    IN  IF u = 0 /\ v = 0
        THEN \* atan2(+-0, +0) = +-0, atan2(+-0, -0) = +-PI; the x argument
             \* is -dx, so it is +0 when dx is -0.0.
             IF fdx.neg THEN 0 ELSE 4
        ELSE IF Near(u, v) THEN (IF u > 0 THEN (IF v < 0 THEN 8 ELSE 0) ELSE 4)
        ELSE IF Near(v, u) THEN (IF v > 0 THEN 2 ELSE 6)
        ELSE IF u > 0 THEN (IF v > 0 THEN 1 ELSE 7)
        ELSE (IF v > 0 THEN 3 ELSE 5)

\* An octant computation without the wrap of 8 to 0.
get_event_octant_no_wrap(fdx, fdy) == RoundedAngle(fdx, fdy)

\* get_event_octant: the rounded angle, with 8 wrapped to 0.
get_event_octant(fdx, fdy) ==
    LET octant == RoundedAngle(fdx, fdy)
    IN  IF octant = 8 THEN 0 ELSE octant

\* A magnitude without the square root: dx^2 + dy^2 < threshold.
MagnitudeBelow_no_sqrt(fdx, fdy, t) ==
    fdx.mag * fdx.mag + fdy.mag * fdy.mag < t

\* A classifier without the threshold check.
MagnitudeBelow_never(fdx, fdy, t) == FALSE

\* A threshold check that also rejects a magnitude equal to the threshold.
MagnitudeBelow_inclusive(fdx, fdy, t) ==
    fdx.mag * fdx.mag + fdy.mag * fdy.mag <= t * t

\* (dx.powi(2) + dy.powi(2)).sqrt() < threshold, for integer values: the
\* square root is never negative, and below a positive t iff the sum of
\* squares is below t^2.
MagnitudeBelow(fdx, fdy, t) ==
    t > 0 /\ fdx.mag * fdx.mag + fdy.mag * fdy.mag < t * t

\* The match on (octant, finger count); the catch-all arm is todo!().
OctantTable(octant, finger_count_as_enum) ==
    IF octant \in 0..7
    THEN Ok(EventName(finger_count_as_enum, Directions[octant + 1]))
    ELSE Panic

\* A classifier that checks the displacement before the finger count.
_end_event_to_action_event_threshold_first(self, fdx, fdy, finger_count) ==
    LET finger_count_as_enum == FingerCount_try_from(finger_count)
        ix == IF self.invert_x THEN FNeg(fdx) ELSE fdx
        iy == IF self.invert_y THEN FNeg(fdy) ELSE fdy
    IN  IF MagnitudeBelow(fdx, fdy, self.threshold)
        THEN DisplacementBelowThreshold(self.threshold)
        ELSE IF finger_count_as_enum.tag # "Ok" THEN finger_count_as_enum
        ELSE OctantTable(get_event_octant(ix, iy), finger_count_as_enum.value)

\* A classifier that keeps track of the swipe and answers only for a swipe
\* that was begun.
_end_event_to_action_event_tracking(self, fdx, fdy, finger_count) ==
    LET finger_count_as_enum == FingerCount_try_from(finger_count)
        ix == IF self.invert_x THEN FNeg(fdx) ELSE fdx
        iy == IF self.invert_y THEN FNeg(fdy) ELSE fdy
    IN  IF finger_count_as_enum.tag # "Ok" THEN finger_count_as_enum
        ELSE IF MagnitudeBelow(fdx, fdy, self.threshold)
                \/ ~swipe.begun
        THEN DisplacementBelowThreshold(self.threshold)
        ELSE OctantTable(get_event_octant(ix, iy), finger_count_as_enum.value)

\* A classifier whose invert_y flag has no effect.
_end_event_to_action_event_no_invert_y(self, fdx, fdy, finger_count) ==
    LET finger_count_as_enum == FingerCount_try_from(finger_count)
        ix == IF self.invert_x THEN FNeg(fdx) ELSE fdx
    IN  IF finger_count_as_enum.tag # "Ok" THEN finger_count_as_enum
        ELSE IF MagnitudeBelow(fdx, fdy, self.threshold)
        THEN DisplacementBelowThreshold(self.threshold)
        ELSE OctantTable(get_event_octant(ix, fdy), finger_count_as_enum.value)

\* self is the processor: [threshold, invert_x, invert_y].
_end_event_to_action_event(self, fdx, fdy, finger_count) ==
    LET finger_count_as_enum == FingerCount_try_from(finger_count)
        ix == IF self.invert_x THEN FNeg(fdx) ELSE fdx
        iy == IF self.invert_y THEN FNeg(fdy) ELSE fdy
    IN  IF finger_count_as_enum.tag # "Ok" THEN finger_count_as_enum
        ELSE IF MagnitudeBelow(fdx, fdy, self.threshold)
        THEN DisplacementBelowThreshold(self.threshold)
        ELSE OctantTable(get_event_octant(ix, iy), finger_count_as_enum.value)

(***************************************************************************)
(* DefaultController::end_event_to_action_event (axis-dominance            *)
(* classifier of the "controller" generation).                             *)
(***************************************************************************)
\* An axis-dominance classifier with the y axis of the screen: a positive
\* dy is a swipe down.
end_event_to_action_event_screen_y(self, fdx, fdy, finger_count) ==
    LET finger_count_as_enum == FingerCount_try_from(finger_count)
        tx == IF fdx.mag < self.threshold THEN F(0) ELSE fdx
        ty == IF fdy.mag < self.threshold THEN F(0) ELSE fdy
        axis == IF tx.mag > ty.mag THEN "X" ELSE "Y"
        positive == IF tx.mag > ty.mag THEN Val(tx) > 0 ELSE Val(ty) > 0
        direction ==
            IF axis = "X" THEN (IF positive THEN "Right" ELSE "Left")
            ELSE (IF positive THEN "Down" ELSE "Up")
    IN  IF finger_count_as_enum.tag # "Ok" THEN finger_count_as_enum
        ELSE IF tx.mag = 0 /\ ty.mag = 0
        THEN DisplacementBelowThreshold(self.threshold)
        ELSE Ok(EventName(finger_count_as_enum.value, direction))

\* self is the controller: [threshold, actions, connection].
end_event_to_action_event(self, fdx, fdy, finger_count) ==
    LET finger_count_as_enum == FingerCount_try_from(finger_count)
        \* dx = if dx.abs() < self.threshold { 0.0 } else { dx }
        tx == IF fdx.mag < self.threshold THEN F(0) ELSE fdx
        ty == IF fdy.mag < self.threshold THEN F(0) ELSE fdy
        axis == IF tx.mag > ty.mag THEN "X" ELSE "Y"
        positive == IF tx.mag > ty.mag THEN Val(tx) > 0 ELSE Val(ty) > 0
        direction ==
            IF axis = "X" THEN (IF positive THEN "Right" ELSE "Left")
            ELSE (IF positive THEN "Up" ELSE "Down")
    IN  IF finger_count_as_enum.tag # "Ok" THEN finger_count_as_enum
        ELSE IF tx.mag = 0 /\ ty.mag = 0
        THEN DisplacementBelowThreshold(self.threshold)
        ELSE Ok(EventName(finger_count_as_enum.value, direction))

(***************************************************************************)
(* Actions: I3Action, CommandAction.                                       *)
(***************************************************************************)
StringifiedAction(type_, command) == [type_ |-> type_, command |-> command]

OkUnit == [tag |-> "Ok", value |-> [unit |-> TRUE]]

ExecutionError(type_, message) ==
    [tag |-> "ExecutionError", type_ |-> type_, message |-> message]

NoActionsRegistered(event) == [tag |-> "NoActionsRegistered", event |-> event]

\* What becomes of a request on the i3 connection: the endpoint receives it
\* and replies (every outcome of the reply successful, or one of them not),
\* the endpoint receives it and no reply arrives ("reply_error"), or the
\* request does not reach the endpoint ("transport_error").
I3Outcomes == {"success", "unsuccessful", "reply_error", "transport_error"}

\* The outcomes with which run_command and get_version return Err.
RunCommandErrors == {"reply_error", "transport_error"}

\* The outcomes with which the endpoint has received the request.
Received == {"success", "unsuccessful", "reply_error"}

\* What the operating system answers to Command::output().
CommandOutcomes == {"spawned", "os_error"}

\* An I3Action that does not look at the outcomes of the reply.
I3Action_execute_command_ignore_outcomes(action, conn, outcome) ==
    IF conn = "None" THEN ExecutionError("i3", "i3 connection is not set")
    ELSE IF outcome \in RunCommandErrors THEN ExecutionError("i3", "transport error")
    ELSE OkUnit

\* An I3Action that unwraps the connection slot.
I3Action_execute_command_unwrap(action, conn, outcome) ==
    IF conn = "None" THEN Panic
    ELSE IF outcome \in RunCommandErrors THEN ExecutionError("i3", "transport error")
    ELSE IF outcome = "unsuccessful" THEN ExecutionError("i3", "unsuccessful outcome(s)")
    ELSE OkUnit

\* I3Action::execute_command
I3Action_execute_command(action, conn, outcome) ==
    IF conn = "None" THEN ExecutionError("i3", "i3 connection is not set")
    ELSE IF outcome \in RunCommandErrors THEN ExecutionError("i3", "transport error")
    ELSE IF outcome = "unsuccessful" THEN ExecutionError("i3", "unsuccessful outcome(s)")
    ELSE OkUnit

\* An I3Action that empties the slot when the transport fails.
I3Action_connection_after_dropped(action, conn, outcome) ==
    IF outcome \in RunCommandErrors THEN "None" ELSE conn

\* The connection slot after I3Action::execute_command: the slot is borrowed,
\* the connection in it is used by run_command, and nothing is assigned to it.
I3Action_connection_after(action, conn, outcome) == conn

\* The character at position i of a string.
Ch(s, i) == SubSeq(s, i, i)

Whitespace == {" ", "\t", "\n"}

\* Shlex::parse_single, from the character after the opening quote: the
\* characters up to the closing quote are taken as they are; the end of the
\* string before the closing quote is an error.
RECURSIVE Shlex_parse_single(_, _, _)
Shlex_parse_single(s, i, result) ==
    IF i > Len(s) THEN [ok |-> FALSE]
    ELSE IF Ch(s, i) = "'" THEN [ok |-> TRUE, next |-> i + 1, result |-> result]
    ELSE Shlex_parse_single(s, i + 1, result \o Ch(s, i))

\* Shlex::parse_double, from the character after the opening quote: a
\* backslash escapes a dollar, a double quote and a backslash (and a
\* backquote, a character no string of the model holds), swallows a line
\* break, and stays in front of any other character.
RECURSIVE Shlex_parse_double(_, _, _)
Shlex_parse_double(s, i, result) ==
    IF i > Len(s) THEN [ok |-> FALSE]
    ELSE IF Ch(s, i) = "\\"
    THEN IF i + 1 > Len(s) THEN [ok |-> FALSE]
         ELSE IF Ch(s, i + 1) \in {"$", "\"", "\\"}
         THEN Shlex_parse_double(s, i + 2, result \o Ch(s, i + 1))
         ELSE IF Ch(s, i + 1) = "\n" THEN Shlex_parse_double(s, i + 2, result)
         ELSE Shlex_parse_double(s, i + 2, result \o "\\" \o Ch(s, i + 1))
    ELSE IF Ch(s, i) = "\"" THEN [ok |-> TRUE, next |-> i + 1, result |-> result]
    ELSE Shlex_parse_double(s, i + 1, result \o Ch(s, i))

\* Shlex::parse_word, at the character i of the word: quotes open a quoted
\* part, a backslash takes the next character, whitespace ends the word.
RECURSIVE Shlex_parse_word(_, _, _)
Shlex_parse_word(s, i, result) ==
    LET ch == Ch(s, i)
        rest(j, word) == IF j <= Len(s) THEN Shlex_parse_word(s, j, word)
                         ELSE [ok |-> TRUE, next |-> j, result |-> word]
    IN  IF ch = "\""
        THEN CHOOSE r \in {IF d.ok THEN rest(d.next, d.result) ELSE [ok |-> FALSE] :
                            d \in {Shlex_parse_double(s, i + 1, result)}} : TRUE
        ELSE IF ch = "'"
        THEN CHOOSE r \in {IF q.ok THEN rest(q.next, q.result) ELSE [ok |-> FALSE] :
                            q \in {Shlex_parse_single(s, i + 1, result)}} : TRUE
        ELSE IF ch = "\\"
        THEN IF i + 1 > Len(s) THEN [ok |-> FALSE]
             ELSE rest(i + 2, IF Ch(s, i + 1) = "\n" THEN result
                              ELSE result \o Ch(s, i + 1))
        ELSE IF ch \in Whitespace THEN [ok |-> TRUE, next |-> i + 1, result |-> result]
        ELSE rest(i + 1, result \o ch)

\* The position after the comment that starts at i: after its line break.
RECURSIVE Shlex_skip_comment(_, _)
Shlex_skip_comment(s, i) ==
    IF i > Len(s) THEN i
    ELSE IF Ch(s, i) = "\n" THEN i + 1
    ELSE Shlex_skip_comment(s, i + 1)

\* Shlex::next, from the character i: whitespace and comments in front of
\* a word are skipped; no word is left at the end of the string.
RECURSIVE Shlex_next(_, _)
Shlex_next(s, i) ==
    IF i > Len(s) THEN [ok |-> TRUE, some |-> FALSE]
    ELSE IF Ch(s, i) \in Whitespace THEN Shlex_next(s, i + 1)
    ELSE IF Ch(s, i) = "#" THEN Shlex_next(s, Shlex_skip_comment(s, i + 1))
    ELSE CHOOSE r \in {IF w.ok THEN [ok |-> TRUE, some |-> TRUE,
                                      next |-> w.next, word |-> w.result]
                        ELSE [ok |-> FALSE, some |-> FALSE] :
                        w \in {Shlex_parse_word(s, i, "")}} : TRUE

\* The words from the character i on, or the error of one of them. (The
\* result of a step is bound to a variable of a one-element set, so that it
\* is computed once however often it is read.)
RECURSIVE Shlex_collect(_, _, _)
Shlex_collect(s, i, res) ==
    CHOOSE r \in {IF ~n.ok THEN [some |-> FALSE]
                   ELSE IF ~n.some THEN [some |-> TRUE, words |-> res]
                   ELSE Shlex_collect(s, n.next, Append(res, n.word)) :
                   n \in {Shlex_next(s, i)}} : TRUE

\* shlex::split: the words of the command by the rules of the shell, or
\* None if a quote or an escape is left open.
split(command) == Shlex_collect(command, 1, <<>>)

\* CommandAction::execute_command
CommandAction_execute_command(action, outcome) ==
    LET split_commands == split(action.command)
    IN  IF ~split_commands.some THEN Panic                    \* .unwrap()
        ELSE IF Len(split_commands.words) = 0 THEN Panic      \* split_commands[0]
        ELSE IF outcome = "os_error" THEN ExecutionError("command", "os error")
        ELSE OkUnit

\* The program and the arguments a CommandAction hands to Command::new and
\* Command::args; nothing is spawned by an i3 action or if the split fails.
Spawned(action) ==
    IF action.type_ # "command" THEN <<>>
    ELSE LET split_commands == split(action.command)
         IN  IF split_commands.some THEN split_commands.words ELSE <<>>

\* Action::execute_command, by the type of the action.
execute_command(action, conn, outcome) ==
    IF action.type_ = "i3" THEN I3Action_execute_command(action, conn, outcome)
    ELSE CommandAction_execute_command(action, outcome)

\* The answers the environment can give to one action: those of the i3
\* endpoint if run_command is reached, those of the operating system if
\* Command::output() is reached.
OutcomesOf(action, conn) ==
    IF action.type_ = "i3"
    THEN (IF conn = "Some" THEN I3Outcomes ELSE {"unused"})
    ELSE LET split_commands == split(action.command)
         IN  IF split_commands.some /\ Len(split_commands.words) > 0
             THEN CommandOutcomes ELSE {"unused"}

\* The answers the environment can give to the actions of a list.
RECURSIVE OutcomesFor(_, _)
OutcomesFor(list, conn) ==
    IF Len(list) = 0 THEN {<<>>}
    ELSE LET answers == OutcomesOf(list[Len(list)], conn)
             before == OutcomesFor(SubSeq(list, 1, Len(list) - 1), conn)
         IN  {Append(o, a) : o \in before, a \in answers}

\* for action in actions.iter_mut() { match action.execute_command() ... }:
\* the calls made from the i-th action on; an Err is logged and the loop goes
\* on, a panic unwinds the thread.
RECURSIVE InvokeFrom(_, _, _, _)
InvokeFrom(list, i, conn, outcomes) ==
    IF i > Len(list) THEN <<>>
    ELSE LET r == execute_command(list[i], conn, outcomes[i])
             call == [action |-> list[i], outcome |-> outcomes[i], result |-> r,
                      spawned |-> Spawned(list[i])]
         IN  IF r = Panic THEN <<call>>
             ELSE <<call>> \o InvokeFrom(list, i + 1, conn, outcomes)

\* The connection slot after the calls of a dispatch.
RECURSIVE SlotAfter(_, _)
SlotAfter(calls, conn) ==
    IF Len(calls) = 0 THEN conn
    ELSE LET call == Head(calls)
         IN  SlotAfter(Tail(calls),
                       IF call.action.type_ = "i3"
                       THEN I3Action_connection_after(call.action, conn, call.outcome)
                       ELSE conn)

\* The requests the endpoint of the connection receives for the calls of a
\* dispatch, appended to those it has received: the payload of every
\* run_command that reached the endpoint, whatever became of the reply. The
\* listener of the tests (init_listener) pushes them to message_log.
RECURSIVE listener(_, _)
listener(log, calls) ==
    IF Len(calls) = 0 THEN log
    ELSE LET call == Head(calls)
         IN  listener(IF call.action.type_ = "i3"
                         /\ call.outcome \in Received
                      THEN Append(log, call.action.command) ELSE log,
                      Tail(calls))

Panicked(calls) == Len(calls) > 0 /\ calls[Len(calls)].result = Panic

\* A dispatch loop that gives up at the first action that fails.
RECURSIVE InvokeUntilError(_, _, _, _)
InvokeUntilError(list, i, conn, outcomes) ==
    IF i > Len(list) THEN <<>>
    ELSE LET r == execute_command(list[i], conn, outcomes[i])
             call == [action |-> list[i], outcome |-> outcomes[i], result |-> r,
                      spawned |-> Spawned(list[i])]
         IN  IF r.tag # "Ok" THEN <<call>>
             ELSE <<call>> \o InvokeUntilError(list, i + 1, conn, outcomes)

invoke_actions_until_error(self, action_event, outcomes) ==
    IF action_event \notin DOMAIN self.actions
    THEN [result |-> NoActionsRegistered(action_event), calls |-> <<>>]
    ELSE LET calls == InvokeUntilError(self.actions[action_event], 1, self.connection, outcomes)
         IN  [result |-> IF Panicked(calls) THEN Panic ELSE OkUnit, calls |-> calls]

\* A dispatch that calls the actions of the list again when one of them failed.
invoke_actions_retry(self, action_event, outcomes) ==
    IF action_event \notin DOMAIN self.actions
    THEN [result |-> NoActionsRegistered(action_event), calls |-> <<>>]
    ELSE LET calls == InvokeFrom(self.actions[action_event], 1, self.connection, outcomes)
         IN  [result |-> IF Panicked(calls) THEN Panic ELSE OkUnit,
              calls |-> IF \E i \in 1..Len(calls) : calls[i].result.tag # "Ok"
                        THEN calls \o calls ELSE calls]

\* A dispatch that unwraps the lookup of the event.
invoke_actions_unwrap(self, action_event, outcomes) ==
    IF action_event \notin DOMAIN self.actions
    THEN [result |-> Panic, calls |-> <<>>]
    ELSE LET calls == InvokeFrom(self.actions[action_event], 1, self.connection, outcomes)
         IN  [result |-> IF Panicked(calls) THEN Panic ELSE OkUnit, calls |-> calls]

\* A dispatch that takes an empty list for a missing registration.
invoke_actions_empty_is_error(self, action_event, outcomes) ==
    IF action_event \notin DOMAIN self.actions \/ self.actions[action_event] = <<>>
    THEN [result |-> NoActionsRegistered(action_event), calls |-> <<>>]
    ELSE LET calls == InvokeFrom(self.actions[action_event], 1, self.connection, outcomes)
         IN  [result |-> IF Panicked(calls) THEN Panic ELSE OkUnit, calls |-> calls]

\* The lookup and the invocation of the actions of an ActionEvent.
invoke_actions(self, action_event, outcomes) ==
    IF action_event \notin DOMAIN self.actions
    THEN [result |-> NoActionsRegistered(action_event), calls |-> <<>>]
    ELSE LET calls == InvokeFrom(self.actions[action_event], 1, self.connection, outcomes)
         IN  [result |-> IF Panicked(calls) THEN Panic ELSE OkUnit, calls |-> calls]

\* DefaultController::receive_end_event
receive_end_event(self, fdx, fdy, finger_count, outcomes) ==
    LET action_event == end_event_to_action_event(self, fdx, fdy, finger_count)
    IN  IF action_event.tag # "Ok"
        THEN [result |-> action_event, calls |-> <<>>, action_event |-> action_event]
        ELSE [action_event |-> action_event]
             @@ invoke_actions(self, action_event.value, outcomes)

(***************************************************************************)
(* Gesture events and their processing.                                    *)
(***************************************************************************)
Begin == [kind |-> "Begin"]

Update(ddx, ddy) == [kind |-> "Update", dx |-> ddx, dy |-> ddy]

End(finger_count) == [kind |-> "End", finger_count |-> finger_count]

\* A GestureSwipeEvent that is none of Begin, Update, End (the enum is
\* non-exhaustive).
OtherSwipe == [kind |-> "OtherSwipe"]

\* A GestureEvent that is no swipe (pinch, hold).
NoSwipeGesture == [kind |-> "NoSwipeGesture"]

UnsupportedSwipeEvent == [tag |-> "UnsupportedSwipeEvent"]

None == [some |-> FALSE]

Some(v) == [some |-> TRUE, value |-> v]

NotClassified == [tag |-> "none"]

\* A processor that clears the displacement once the End is classified.
DefaultProcessor_process_event_end_resets(self, event, fdx, fdy) ==
    IF event.kind = "Begin"
    THEN [dx |-> F(0), dy |-> F(0), result |-> Ok(None), classified |-> NotClassified]
    ELSE IF event.kind = "Update"
    THEN [dx |-> FAdd(fdx, event.dx), dy |-> FAdd(fdy, event.dy),
          result |-> Ok(None), classified |-> NotClassified]
    ELSE IF event.kind = "End"
    THEN LET r == _end_event_to_action_event(self, fdx, fdy, event.finger_count)
         IN  [dx |-> F(0), dy |-> F(0),
              result |-> IF r.tag = "Ok" THEN Ok(Some(r.value)) ELSE r,
              classified |-> r]
    ELSE IF event.kind = "OtherSwipe"
    THEN [dx |-> fdx, dy |-> fdy, result |-> UnsupportedSwipeEvent,
          classified |-> NotClassified]
    ELSE [dx |-> fdx, dy |-> fdy, result |-> Ok(None), classified |-> NotClassified]

\* A processor with an Idle and a Tracking state: an Update or an End that
\* no Begin precedes is dropped.
DefaultProcessor_process_event_tracking(self, event, fdx, fdy) ==
    IF event.kind = "Begin"
    THEN [dx |-> F(0), dy |-> F(0), result |-> Ok(None), classified |-> NotClassified]
    ELSE IF event.kind \in {"Update", "End"} /\ ~swipe.begun
    THEN [dx |-> fdx, dy |-> fdy, result |-> Ok(None), classified |-> NotClassified]
    ELSE IF event.kind = "Update"
    THEN [dx |-> FAdd(fdx, event.dx), dy |-> FAdd(fdy, event.dy),
          result |-> Ok(None), classified |-> NotClassified]
    ELSE IF event.kind = "End"
    THEN LET r == _end_event_to_action_event(self, fdx, fdy, event.finger_count)
         IN  [dx |-> fdx, dy |-> fdy,
              result |-> IF r.tag = "Ok" THEN Ok(Some(r.value)) ELSE r,
              classified |-> r]
    ELSE IF event.kind = "OtherSwipe"
    THEN [dx |-> fdx, dy |-> fdy, result |-> UnsupportedSwipeEvent,
          classified |-> NotClassified]
    ELSE [dx |-> fdx, dy |-> fdy, result |-> Ok(None), classified |-> NotClassified]

\* A processor that takes an unknown swipe event for the start of a swipe.
DefaultProcessor_process_event_other_resets(self, event, fdx, fdy) ==
    IF event.kind \in {"Begin", "OtherSwipe"}
    THEN [dx |-> F(0), dy |-> F(0), result |-> Ok(None), classified |-> NotClassified]
    ELSE IF event.kind = "Update"
    THEN [dx |-> FAdd(fdx, event.dx), dy |-> FAdd(fdy, event.dy),
          result |-> Ok(None), classified |-> NotClassified]
    ELSE IF event.kind = "End"
    THEN LET r == _end_event_to_action_event(self, fdx, fdy, event.finger_count)
         IN  [dx |-> fdx, dy |-> fdy,
              result |-> IF r.tag = "Ok" THEN Ok(Some(r.value)) ELSE r,
              classified |-> r]
    ELSE [dx |-> fdx, dy |-> fdy, result |-> Ok(None), classified |-> NotClassified]

\* A processor whose Begin leaves the displacement as it was.
DefaultProcessor_process_event_no_reset(self, event, fdx, fdy) ==
    IF event.kind = "Update"
    THEN [dx |-> FAdd(fdx, event.dx), dy |-> FAdd(fdy, event.dy),
          result |-> Ok(None), classified |-> NotClassified]
    ELSE IF event.kind = "End"
    THEN LET r == _end_event_to_action_event(self, fdx, fdy, event.finger_count)
         IN  [dx |-> fdx, dy |-> fdy,
              result |-> IF r.tag = "Ok" THEN Ok(Some(r.value)) ELSE r,
              classified |-> r]
    ELSE IF event.kind = "OtherSwipe"
    THEN [dx |-> fdx, dy |-> fdy, result |-> UnsupportedSwipeEvent,
          classified |-> NotClassified]
    ELSE [dx |-> fdx, dy |-> fdy, result |-> Ok(None), classified |-> NotClassified]

\* DefaultProcessor::process_event: the new displacement and the result.
DefaultProcessor_process_event(self, event, fdx, fdy) ==
    IF event.kind = "Begin"
    THEN [dx |-> F(0), dy |-> F(0), result |-> Ok(None), classified |-> NotClassified]
    ELSE IF event.kind = "Update"
    THEN [dx |-> FAdd(fdx, event.dx), dy |-> FAdd(fdy, event.dy),
          result |-> Ok(None), classified |-> NotClassified]
    ELSE IF event.kind = "End"
    THEN LET r == _end_event_to_action_event(self, fdx, fdy, event.finger_count)
         IN  [dx |-> fdx, dy |-> fdy,
              result |-> IF r.tag = "Ok" THEN Ok(Some(r.value)) ELSE r,
              classified |-> r]
    ELSE IF event.kind = "OtherSwipe"
    THEN [dx |-> fdx, dy |-> fdy, result |-> UnsupportedSwipeEvent,
          classified |-> NotClassified]
    ELSE [dx |-> fdx, dy |-> fdy, result |-> Ok(None), classified |-> NotClassified]

\* One iteration of the loop of DefaultProcessor::dispatch over the pending
\* gesture events: the event is processed; an error is logged and dropped,
\* an ActionEvent is pushed to the events collected so far.
DefaultProcessor_dispatch_event(self, event, fdx, fdy, collected) ==
    LET p == DefaultProcessor_process_event(self, event, fdx, fdy)
    IN  [dx |-> p.dx, dy |-> p.dy, result |-> p.result, classified |-> p.classified,
         action_events |-> IF p.result.tag = "Ok" /\ p.result.value.some
                           THEN Append(collected, p.result.value.value)
                           ELSE collected]

\* The loop of DefaultProcessor::dispatch from the i-th event of the batch on.
RECURSIVE DispatchFrom(_, _, _, _, _, _)
DispatchFrom(self, events, i, fdx, fdy, collected) ==
    IF i > Len(events)
    THEN [dx |-> fdx, dy |-> fdy, result |-> Ok(collected)]
    ELSE LET r == DefaultProcessor_dispatch_event(self, events[i], fdx, fdy, collected)
         IN  IF r.result = Panic THEN [dx |-> r.dx, dy |-> r.dy, result |-> Panic]
             ELSE DispatchFrom(self, events, i + 1, r.dx, r.dy, r.action_events)

\* DefaultProcessor::dispatch on a batch of gesture events that poll and
\* input.dispatch() have made available: the displacement after the batch
\* and the ActionEvents of its Ends, in the order of the Ends.
DefaultProcessor_dispatch(self, events, fdx, fdy) ==
    DispatchFrom(self, events, 1, fdx, fdy, <<>>)

\* What the controller of the "processor" generation does with an
\* ActionEvent that has no entry in the action map. Nothing states it (the
\* list is taken to be always present), so every answer is allowed: the
\* error NoActionsRegistered is dropped and the loop goes on, the error is
\* returned by the loop, or the lookup unwinds the thread.
MissingEntryAnswers == {"continues", "returns", "unwinds"}

\* The controller's handling of one ActionEvent that dispatch returned, in
\* the "processor" generation: the action list of the event is looked up;
\* each action of the list is executed in registration order, a failure is
\* logged and stops neither the actions after it nor the loop.
DefaultController_process_action_event(controller, action_event, outcomes, missing) ==
    IF action_event \in DOMAIN controller.actions
    THEN [loop |-> "continues"] @@ invoke_actions(controller, action_event, outcomes)
    ELSE [result |-> IF missing = "unwinds" THEN Panic
                     ELSE NoActionsRegistered(action_event),
          calls |-> <<>>, loop |-> missing]

\* process_event of the "controller" generation.
process_event(action_map, event, fdx, fdy, outcomes) ==
    IF event.kind = "Begin"
    THEN [dx |-> F(0), dy |-> F(0), result |-> OkUnit, classified |-> NotClassified,
          dispatched |-> NotClassified, calls |-> <<>>]
    ELSE IF event.kind = "Update"
    THEN [dx |-> FAdd(fdx, event.dx), dy |-> FAdd(fdy, event.dy), result |-> OkUnit,
          classified |-> NotClassified, dispatched |-> NotClassified, calls |-> <<>>]
    ELSE IF event.kind = "End"
    THEN LET r == receive_end_event(action_map, fdx, fdy, event.finger_count, outcomes)
         IN  \* action_map.receive_end_event(...)?
             [dx |-> fdx, dy |-> fdy, result |-> r.result, classified |-> r.action_event,
              dispatched |-> r.result, calls |-> r.calls]
    ELSE IF event.kind = "OtherSwipe"
    THEN [dx |-> fdx, dy |-> fdy, result |-> UnsupportedSwipeEvent,
          classified |-> NotClassified, dispatched |-> NotClassified, calls |-> <<>>]
    ELSE [dx |-> fdx, dy |-> fdy, result |-> OkUnit, classified |-> NotClassified,
          dispatched |-> NotClassified, calls |-> <<>>]

(***************************************************************************)
(* Settings and the construction of the action map.                        *)
(***************************************************************************)
\* ActionEvent::iter() of the generation.
EventsOf(gen) == IF gen = "processor" THEN ActionEvent ELSE AxisActionEvent

ThreeFingerSwipeLeft == EventName("ThreeFinger", "Left")

ThreeFingerSwipeRight == EventName("ThreeFinger", "Right")

\* Settings::default().actions
DefaultSettingsActions ==
    [e \in AxisActionEvent |->
        IF e = ThreeFingerSwipeLeft THEN <<StringifiedAction("i3", "workspace prev")>>
        ELSE IF e = ThreeFingerSwipeRight THEN <<StringifiedAction("i3", "workspace next")>>
        ELSE <<>>]

\* The settings of test_i3_not_available, and a list of two commands for the
\* four-finger counterpart.
TestSettingsActions ==
    [e \in ActionEvent |->
        IF e = ThreeFingerSwipeRight
        THEN <<StringifiedAction("i3", "swipe right"),
               StringifiedAction("command", "touch /tmp/swipe-right")>>
        ELSE IF e = EventName("FourFinger", "Right")
        THEN <<StringifiedAction("command", "touch /tmp/swipe-right"),
               StringifiedAction("command", "touch /tmp/myfile")>>
        ELSE IF e = EventName("ThreeFinger", "LeftUp")
        THEN <<StringifiedAction("i3", "3left-up")>>
        ELSE <<>>]

\* Settings without any i3 action, and with commands that shlex cannot
\* split into a program and its arguments.
CommandSettingsActions ==
    [e \in ActionEvent |->
        IF e = ThreeFingerSwipeRight
        THEN <<StringifiedAction("command", "'unterminated"),
               StringifiedAction("command", "touch /tmp/swipe-right")>>
        ELSE IF e = ThreeFingerSwipeLeft
        THEN <<StringifiedAction("command", "")>>
        ELSE IF e = EventName("FourFinger", "Right")
        THEN <<StringifiedAction("command", "touch /tmp/swipe-right")>>
        ELSE <<>>]

\* No event is configured: the HashMap::new() that the tests of the
\* controller hand to DefaultController::new.
EmptySettingsActions == [e \in {} |-> <<>>]

SettingsChoices ==
    {DefaultSettingsActions, TestSettingsActions, CommandSettingsActions,
     EmptySettingsActions}

\* The actions built from one list of StringifiedAction.
RECURSIVE actions_list(_, _)
actions_list(arguments, connection_exists) ==
    IF Len(arguments) = 0 THEN <<>>
    ELSE LET value == Head(arguments)
             rest == actions_list(Tail(arguments), connection_exists)
         IN  IF value.type_ = "command" THEN <<value>> \o rest
             ELSE IF value.type_ = "i3"
             THEN (IF connection_exists THEN <<value>> \o rest ELSE rest)
             ELSE rest

\* A construction that connects whatever is configured.
needs_connection_always(settings_actions) == TRUE

\* Whether extract_action_map attempts I3Connection::connect().
needs_connection(settings_actions) ==
    \E k \in DOMAIN settings_actions :
        \E i \in 1..Len(settings_actions[k]) : settings_actions[k][i].type_ = "i3"

\* A registry construction that creates the i3 actions whatever the slot holds.
extract_action_map_keep_i3(settings_actions, events, connect_ok, version) ==
    LET conn == IF needs_connection(settings_actions) /\ connect_ok
                THEN "Some" ELSE "None"
    IN  [actions |-> [e \in events \cap DOMAIN settings_actions |->
                         actions_list(settings_actions[e], TRUE)],
         connection |-> conn,
         connects |-> IF needs_connection(settings_actions) THEN 1 ELSE 0,
         requests |-> IF conn = "Some" /\ version \in Received THEN <<"">> ELSE <<>>,
         panicked |-> FALSE]

\* extract_action_map of settings.rs: the action map and the shared
\* connection. connect_ok: I3Connection::connect() succeeds; version: what
\* becomes of the request of conn.get_version().
extract_action_map(settings_actions, events, connect_ok, version) ==
    LET conn == IF needs_connection(settings_actions) /\ connect_ok
                THEN "Some" ELSE "None"
    IN  [actions |-> [e \in events \cap DOMAIN settings_actions |->
                         actions_list(settings_actions[e], conn = "Some")],
         connection |-> conn,
         \* I3Connection::connect() is called once if an i3 action is configured
         connects |-> IF needs_connection(settings_actions) THEN 1 ELSE 0,
         \* conn.get_version(): a request with an empty payload is sent on
         \* the connection that was opened; Err(e) is logged, the version is
         \* "unknown" and the connection is kept, whether the endpoint had
         \* received the request or not
         requests |-> IF conn = "Some" /\ version \in Received THEN <<"">> ELSE <<>>,
         panicked |-> FALSE]

\* extract_action_map of utils.rs: conn.get_version().unwrap() is an argument
\* of info!, evaluated only if the level Info is enabled; its Err unwinds
\* the thread before the connection is stored and the map is filled.
extract_action_map_utils(settings_actions, events, connect_ok, version, info_enabled) ==
    LET connected == needs_connection(settings_actions) /\ connect_ok
        asked == connected /\ info_enabled
        panicked == asked /\ version \in RunCommandErrors
        conn == IF connected /\ ~panicked THEN "Some" ELSE "None"
    IN  [actions |-> IF panicked THEN <<>>
                     ELSE [e \in events \cap DOMAIN settings_actions |->
                              actions_list(settings_actions[e], conn = "Some")],
         connection |-> conn,
         connects |-> IF needs_connection(settings_actions) THEN 1 ELSE 0,
         \* the endpoint may have received the request whose reply fails
         requests |-> IF asked /\ version \in Received THEN <<"">> ELSE <<>>,
         panicked |-> panicked]

\* extract_action_map as the generation has it: in utils.rs for the
\* "controller" generation, in settings.rs for the "processor" generation.
extract_action_map_of(gen, settings_actions, connect_ok, version, info_enabled) ==
    IF gen = "processor"
    THEN extract_action_map(settings_actions, EventsOf(gen), connect_ok, version)
    ELSE extract_action_map_utils(settings_actions, EventsOf(gen), connect_ok,
                                  version, info_enabled)

\* The answers of the endpoint to get_version that make a difference: it is
\* asked only on a connection that was opened.
VersionAnswers(settings_actions, connect_ok) ==
    IF needs_connection(settings_actions) /\ connect_ok
    THEN {"success", "reply_error", "transport_error"} ELSE {"success"}

\* DefaultController::new of defaultcontroller.rs: the controller is built;
\* _get_status_info is an argument of info!, and the line it writes at the
\* level Debug for every ActionEvent unwraps the lookup of the event.
DefaultController_new(controller_actions, events, level) ==
    [actions |-> controller_actions,
     panicked |-> level = "Debug" /\ \E e \in events : e \notin DOMAIN controller_actions]

\* The levels of the logger that make a difference: those of the
\* "controller" generation, whose setup evaluates arguments of info! and
\* debug! that can fail.
LogLevels(gen) == IF gen = "controller" THEN {"Warn", "Info", "Debug"} ELSE {"Warn"}

\* Whether the level Info of the logger is enabled, where it makes a
\* difference: in utils.rs, on a connection that was opened.
InfoLevels(gen, settings_actions, connect_ok) ==
    IF gen = "controller" /\ needs_connection(settings_actions) /\ connect_ok
    THEN BOOLEAN ELSE {TRUE}

(***************************************************************************)
(* The program: setup, then the main loop.                                 *)
(***************************************************************************)
Idle == [op |-> "none"]

Processor == [threshold |-> threshold, invert_x |-> invert_x, invert_y |-> invert_y]

\* The thresholds the program is configured with (5.0 is the tests').
Thresholds == {0, 2, 5}

FingerCounts == 2..MaxFingers

Deltas == {F(i) : i \in -1..1}

NoSwipe == [begun |-> FALSE, dx |-> 0, dy |-> 0]

Controller == [threshold |-> threshold, actions |-> actions, connection |-> connection]

Init ==
    /\ generation \in {"controller", "processor"}
    /\ threshold \in Thresholds
    /\ invert_x \in (IF generation = "processor" THEN BOOLEAN ELSE {FALSE})
    /\ invert_y \in (IF generation = "processor" THEN BOOLEAN ELSE {FALSE})
    /\ settings \in SettingsChoices
    /\ actions = <<>>
    /\ connection = "None"
    /\ dx = F(0)
    /\ dy = F(0)
    /\ pc = "setup"
    /\ last = Idle
    /\ swipe = NoSwipe
    /\ connects = 0
    /\ message_log = <<>>
    /\ action_events = <<>>

\* main(): DefaultProcessor::new fails to assign the seat: the error is
\* logged and the process exits, before the action map is built.
SeatError ==
    /\ pc = "setup"
    /\ pc' = "exit"
    /\ last' = [op |-> "new", result |-> [tag |-> "SeatError"]]
    /\ UNCHANGED <<action_events, message_log, generation, threshold, invert_x, invert_y, settings, actions,
                   connection, dx, dy, swipe, connects>>

\* main(): DefaultProcessor::new succeeds; extract_action_map,
\* DefaultController::new.
Setup ==
    /\ pc = "setup"
    /\ \E connect_ok \in (IF needs_connection(settings) THEN BOOLEAN ELSE {FALSE}) :
          \E version \in VersionAnswers(settings, connect_ok),
             level \in LogLevels(generation) :
             \E m \in {extract_action_map_of(generation, settings, connect_ok,
                                             version, level # "Warn")} :
                /\ actions' = m.actions
                /\ connection' = m.connection
                /\ connects' = connects + m.connects
                /\ message_log' = message_log \o m.requests
                /\ pc' = IF m.panicked
                            \/ (generation = "controller"
                                /\ DefaultController_new(
                                       m.actions, EventsOf(generation), level).panicked)
                         THEN "panicked" ELSE "poll"
    /\ last' = [op |-> "setup"]
    /\ UNCHANGED <<action_events, generation, threshold, invert_x, invert_y, settings, dx, dy, swipe>>

\* poll(...)? or input.dispatch()? fails: the loop returns the error.
PollError ==
    /\ pc = "poll"
    /\ pc' = "exit"
    /\ last' = [op |-> "poll", result |-> [tag |-> "MainLoopError"]]
    /\ UNCHANGED <<action_events, message_log, generation, threshold, invert_x, invert_y, settings, actions,
                   connection, dx, dy, swipe, connects>>

\* poll and input.dispatch() succeed: the pending events are iterated.
Poll ==
    /\ pc = "poll"
    /\ pc' = "events"
    /\ last' = [op |-> "poll", result |-> OkUnit]
    /\ UNCHANGED <<action_events, message_log, generation, threshold, invert_x, invert_y, settings, actions,
                   connection, dx, dy, swipe, connects>>

\* The action list the event will reach in the step that processes it, for
\* the environment to answer: none in the "processor" generation, where the
\* actions are invoked once dispatch has returned.
ListFor(event) ==
    LET c == IF event.kind # "End" \/ generation = "processor" THEN NotClassified
             ELSE end_event_to_action_event(Controller, dx, dy, event.finger_count)
    IN  IF c.tag = "Ok" /\ c.value \in DOMAIN actions THEN actions[c.value] ELSE <<>>

\* The action list registered for an ActionEvent.
ListOf(action_event) ==
    IF action_event \in DOMAIN actions THEN actions[action_event] ELSE <<>>

\* The history of the swipe: Begin starts a sum, Update adds to it.
SwipeAfter(event) ==
    IF event.kind = "Begin" THEN [begun |-> TRUE, dx |-> 0, dy |-> 0]
    ELSE IF event.kind = "Update" /\ swipe.begun
    THEN [begun |-> TRUE, dx |-> swipe.dx + Val(event.dx), dy |-> swipe.dy + Val(event.dy)]
    ELSE IF event.kind = "End" THEN NoSwipe
    ELSE swipe

\* One iteration of the loop over the pending events on a gesture event:
\* `for event in &mut input` of main_loop in the "controller" generation, `for
\* event in events` of DefaultProcessor::dispatch in the "processor" one.
Gesture(event) ==
    /\ pc = "events"
    \* the batch ends with the End that yields the last ActionEvent
    /\ Len(action_events) < MaxActionEvents
    /\ \E outcomes \in OutcomesFor(ListFor(event), connection) :
          \E r \in {IF generation = "processor"
                    THEN [dispatched |-> NotClassified, calls |-> <<>>]
                         @@ DefaultProcessor_dispatch_event(
                                Processor, event, dx, dy, action_events)
                    ELSE [action_events |-> action_events]
                         @@ process_event(Controller, event, dx, dy, outcomes)} :
              /\ r.dx.mag <= MaxDisp /\ r.dy.mag <= MaxDisp
              /\ Len(listener(message_log, r.calls)) <= MaxLog
              /\ message_log' = listener(message_log, r.calls)
              /\ dx' = r.dx
              /\ dy' = r.dy
              /\ action_events' = r.action_events
              /\ last' = [op |-> "process_event", kind |-> event.kind,
                          finger_count |-> IF event.kind = "End"
                                           THEN event.finger_count ELSE 0,
                          \* at an End: the displacement handed to the
                          \* classifier, and the history of the swipe
                          dx |-> IF event.kind = "End" THEN dx ELSE F(0),
                          dy |-> IF event.kind = "End" THEN dy ELSE F(0),
                          swipe |-> IF event.kind = "End" THEN swipe ELSE NoSwipe,
                          result |-> r.result, classified |-> r.classified,
                          dispatched |-> r.dispatched, calls |-> r.calls]
              /\ connection' = SlotAfter(r.calls, connection)
              /\ pc' = IF Panicked(r.calls) \/ r.classified = Panic
                       THEN "panicked" ELSE "events"
    /\ swipe' = SwipeAfter(event)
    /\ UNCHANGED <<generation, threshold, invert_x, invert_y, settings, actions,
                   connects>>

SwipeBegin == Gesture(Begin)

SwipeUpdate == \E ddx \in Deltas, ddy \in Deltas : Gesture(Update(ddx, ddy))

SwipeEnd == \E n \in FingerCounts : Gesture(End(n))

SwipeOther == Gesture(OtherSwipe)

OtherGesture == Gesture(NoSwipeGesture)

\* The iterator is exhausted: back to poll in the "controller" generation;
\* in the "processor" one dispatch returns the ActionEvents it collected and
\* the controller goes through them, if there is any.
EventsDrained ==
    /\ pc = "events"
    /\ pc' = IF action_events # <<>> THEN "actions" ELSE "poll"
    /\ last' = [op |-> "drained"]
    /\ UNCHANGED <<action_events, message_log, generation, threshold, invert_x, invert_y, settings, actions,
                   connection, dx, dy, swipe, connects>>

\* One iteration of the controller's loop over the ActionEvents that
\* dispatch returned: the actions of the first of them are invoked; after
\* the last of them the controller calls dispatch again.
ProcessActionEvent ==
    /\ pc = "actions"
    /\ action_events # <<>>
    /\ \E outcomes \in OutcomesFor(ListOf(Head(action_events)), connection),
          missing \in (IF Head(action_events) \in DOMAIN actions
                       THEN {"continues"} ELSE MissingEntryAnswers) :
          \E d \in {DefaultController_process_action_event(
                        Controller, Head(action_events), outcomes, missing)} :
              /\ Len(listener(message_log, d.calls)) <= MaxLog
              /\ message_log' = listener(message_log, d.calls)
              /\ last' = [op |-> "process_action_event",
                          action_event |-> Head(action_events),
                          dispatched |-> d.result, calls |-> d.calls,
                          loop |-> d.loop]
              /\ connection' = SlotAfter(d.calls, connection)
              /\ pc' = IF Panicked(d.calls) \/ d.loop = "unwinds" THEN "panicked"
                       ELSE IF d.loop = "returns" THEN "exit"
                       ELSE IF Tail(action_events) # <<>> THEN "actions" ELSE "poll"
    /\ action_events' = Tail(action_events)
    /\ UNCHANGED <<generation, threshold, invert_x, invert_y, settings, actions,
                   dx, dy, swipe, connects>>

Next ==
    \/ SeatError
    \/ Setup
    \/ PollError
    \/ Poll
    \/ SwipeBegin
    \/ SwipeUpdate
    \/ SwipeEnd
    \/ SwipeOther
    \/ OtherGesture
    \/ EventsDrained
    \/ ProcessActionEvent

Spec == Init /\ [][Next]_vars

(***************************************************************************)
(* The accumulation of the displacement, observed call by call: in the     *)
(* "controller" generation process_event is called on one event, in the    *)
(* "processor" generation DefaultProcessor::dispatch is called on a batch   *)
(* of events. `last` holds the events, the displacement before them and    *)
(* what the swipe itself moved; `swipe` sums the updates since the last    *)
(* Begin or End, and tells whether a Begin came since the last End.        *)
(***************************************************************************)
\* The updates of the observed swipes.
TracedDeltas == {<<F(1), F(0)>>, <<F(-1), F(0)>>, <<F(0), F(1)>>}

\* The movement of a swipe itself after the event.
MovementOf(movement, event) ==
    IF event.kind = "Begin" THEN [begun |-> TRUE, dx |-> 0, dy |-> 0]
    ELSE IF event.kind = "Update"
    THEN [begun |-> movement.begun, dx |-> movement.dx + Val(event.dx),
          dy |-> movement.dy + Val(event.dy)]
    ELSE IF event.kind = "End" THEN NoSwipe
    ELSE movement

MovementAfter(event) == MovementOf(swipe, event)

\* The movement of the swipe itself after the first i events of a batch.
RECURSIVE MovementOver(_, _)
MovementOver(events, i) ==
    IF i = 0 THEN swipe ELSE MovementOf(MovementOver(events, i - 1), events[i])

InitAccumulator ==
    /\ generation \in {"controller", "processor"}
    /\ threshold = 2
    /\ invert_x = FALSE
    /\ invert_y = FALSE
    /\ settings = TestSettingsActions
    \* the endpoint of the tests answers; no logger is set in the tests
    /\ LET m == extract_action_map_of(generation, TestSettingsActions, TRUE, "success", FALSE)
       IN  /\ actions = m.actions
           /\ connection = m.connection
           /\ connects = m.connects
           /\ message_log = m.requests
    /\ dx = F(0)
    /\ dy = F(0)
    /\ pc = IF generation = "processor" THEN "poll" ELSE "events"
    /\ last = Idle
    /\ swipe = NoSwipe
    /\ action_events = <<>>

\* One iteration of `for event in &mut input` on a gesture event, in the
\* "controller" generation.
TracedGesture(event) ==
    /\ pc = "events"
    /\ generation = "controller"
    /\ \E outcomes \in OutcomesFor(ListFor(event), connection) :
          \E r \in {process_event(Controller, event, dx, dy, outcomes)} :
              /\ r.dx.mag <= MaxDisp /\ r.dy.mag <= MaxDisp
              /\ Len(listener(message_log, r.calls)) <= MaxLog
              /\ message_log' = listener(message_log, r.calls)
              /\ dx' = r.dx
              /\ dy' = r.dy
              /\ last' = [op |-> "process_event", event |-> event,
                          dx |-> dx, dy |-> dy, swipe |-> swipe,
                          classified |-> r.classified, calls |-> r.calls]
              /\ connection' = SlotAfter(r.calls, connection)
              /\ pc' = IF Panicked(r.calls) \/ r.classified = Panic
                       THEN "panicked" ELSE "events"
    /\ swipe' = MovementAfter(event)
    /\ Abs(swipe'.dx) <= MaxDisp /\ Abs(swipe'.dy) <= MaxDisp
    /\ UNCHANGED <<action_events, generation, threshold, invert_x, invert_y,
                   settings, actions, connects>>

TracedBegin == TracedGesture(Begin)

TracedUpdate == \E d \in TracedDeltas : TracedGesture(Update(d[1], d[2]))

TracedEnd == \E n \in FingerCounts : TracedGesture(End(n))

TracedOther == TracedGesture(OtherSwipe) \/ TracedGesture(NoSwipeGesture)

\* The gesture events the batches are made of.
BatchEvents ==
    {Begin, OtherSwipe, Update(F(1), F(0)), Update(F(0), F(1)), End(3), End(MaxFingers)}

\* The batches of events that libinput has pending when poll returns.
TracedBatches == UNION {[1..n -> BatchEvents] : n \in 1..MaxBatch}

\* One call of DefaultProcessor::dispatch by the controller of the
\* "processor" generation: poll and input.dispatch() succeed and the whole
\* batch is processed; the controller then goes through the ActionEvents
\* returned.
DispatchBatch ==
    /\ pc = "poll"
    /\ generation = "processor"
    /\ \E events \in TracedBatches :
          \E r \in {DefaultProcessor_dispatch(Processor, events, dx, dy)},
             moved \in {[i \in 1..Len(events) |-> MovementOver(events, i)]} :
              /\ r.dx.mag <= MaxDisp /\ r.dy.mag <= MaxDisp
              /\ \A i \in 1..Len(events) :
                    Abs(moved[i].dx) <= MaxDisp /\ Abs(moved[i].dy) <= MaxDisp
              /\ dx' = r.dx
              /\ dy' = r.dy
              /\ action_events' = IF r.result = Panic THEN <<>> ELSE r.result.value
              /\ last' = [op |-> "dispatch", events |-> events,
                          dx |-> dx, dy |-> dy, swipe |-> swipe,
                          result |-> r.result]
              /\ swipe' = moved[Len(events)]
              /\ pc' = IF r.result = Panic THEN "panicked"
                       ELSE IF r.result.value # <<>> THEN "actions" ELSE "poll"
    /\ UNCHANGED <<message_log, generation, threshold, invert_x, invert_y, settings,
                   actions, connection, connects>>

NextAccumulator ==
    \/ TracedBegin
    \/ TracedUpdate
    \/ TracedEnd
    \/ TracedOther
    \/ DispatchBatch
    \/ ProcessActionEvent

SpecAccumulator == InitAccumulator /\ [][NextAccumulator]_vars

(***************************************************************************)
(* A direct call of the classifier on a processor, as the library's tests  *)
(* make them: the processor and the arguments are drawn at the start, the  *)
(* call is one step, and `last` holds its arguments and its result.        *)
(***************************************************************************)
InitClassifier ==
    /\ generation = "processor"
    /\ threshold \in 0..MaxThreshold
    /\ invert_x \in BOOLEAN
    /\ invert_y \in BOOLEAN
    /\ settings = <<>>
    /\ actions = <<>>
    /\ connection = "None"
    /\ dx \in F64s(MaxCoord)
    /\ dy \in F64s(MaxCoord)
    /\ pc = "call"
    /\ last \in {[op |-> "call", finger_count |-> n] : n \in 0..(MaxFingers + 1)}
    /\ swipe = NoSwipe
    /\ connects = 0
    /\ message_log = <<>>
    /\ action_events = <<>>

Classify ==
    /\ pc = "call"
    /\ pc' = "returned"
    /\ last' = [op |-> "classify", dx |-> dx, dy |-> dy,
                finger_count |-> last.finger_count,
                result |-> _end_event_to_action_event(
                              Processor, dx, dy, last.finger_count),
                \* the same call on the classifier of DefaultController
                axis_result |-> end_event_to_action_event(
                                   Controller, dx, dy, last.finger_count)]
    /\ UNCHANGED <<action_events, message_log, generation, threshold, invert_x, invert_y, settings,
                   actions, connection, dx, dy, swipe, connects>>

NextClassifier == Classify

SpecClassifier == InitClassifier /\ [][NextClassifier]_vars

(***************************************************************************)
(* Repeated calls of the classifier on one processor: gesture events go    *)
(* through DefaultProcessor::process_event one after the other, and `last` *)
(* keeps the arguments and the result of an earlier call made at an End,   *)
(* to which the calls made at later Ends are compared.                     *)
(***************************************************************************)
RepeatThresholds == {0, 2}

\* Finger counts of the Ends: two the classifier accepts, one it rejects.
RepeatFingers == 3..MaxFingers

NoCall == [dx |-> F(0), dy |-> F(0), finger_count |-> 0, classified |-> NotClassified]

InitRepeated ==
    /\ generation = "processor"
    /\ threshold \in RepeatThresholds
    /\ invert_x \in BOOLEAN
    /\ invert_y \in BOOLEAN
    /\ settings = <<>>
    /\ actions = <<>>
    /\ connection = "None"
    /\ dx = F(0)
    /\ dy = F(0)
    /\ pc = "events"
    /\ last = [op |-> "new", kind |-> "none", call |-> NoCall, repeated |-> FALSE,
               earlier_call |-> NoCall,
               events_between |-> FALSE, ends_between |-> FALSE,
               earlier |-> None, events_since |-> FALSE, ends_since |-> FALSE]
    /\ swipe = NoSwipe
    /\ connects = 0
    /\ message_log = <<>>
    /\ action_events = <<>>

\* One call of DefaultProcessor::process_event. At an End the classifier is
\* called on the displacement accumulated so far; the call is compared with
\* the earlier call kept, and either call is kept for the Ends to come.
RepeatedGesture(event) ==
    /\ pc = "events"
    /\ \E r \in {DefaultProcessor_process_event(Processor, event, dx, dy)} :
          /\ r.dx.mag <= MaxRepeat /\ r.dy.mag <= MaxRepeat
          /\ dx' = r.dx
          /\ dy' = r.dy
          /\ pc' = IF r.classified = Panic THEN "panicked" ELSE "events"
          /\ IF event.kind = "End"
             THEN \E call \in {[dx |-> dx, dy |-> dy,
                                 finger_count |-> event.finger_count,
                                 classified |-> r.classified]} :
                     \E keep \in {last.earlier.some, FALSE} :
                        last' = [op |-> "process_event", kind |-> "End",
                                 call |-> call,
                                 repeated |-> last.earlier.some,
                                 earlier_call |-> IF last.earlier.some
                                                  THEN last.earlier.value
                                                  ELSE NoCall,
                                 events_between |-> last.events_since,
                                 ends_between |-> last.ends_since,
                                 earlier |-> IF keep THEN last.earlier ELSE Some(call),
                                 events_since |-> keep /\ last.events_since,
                                 ends_since |-> keep]
             ELSE last' = [op |-> "process_event", kind |-> event.kind,
                           call |-> NoCall, repeated |-> FALSE,
                           earlier_call |-> NoCall,
                           events_between |-> FALSE, ends_between |-> FALSE,
                           earlier |-> last.earlier,
                           events_since |-> last.earlier.some,
                           ends_since |-> last.ends_since]
    /\ swipe' = SwipeAfter(event)
    /\ UNCHANGED <<action_events, message_log, generation, threshold, invert_x,
                   invert_y, settings, actions, connection, connects>>

RepeatedBegin == RepeatedGesture(Begin)

RepeatedUpdate == \E ddx \in Deltas, ddy \in Deltas : RepeatedGesture(Update(ddx, ddy))

RepeatedEnd == \E n \in RepeatFingers : RepeatedGesture(End(n))

RepeatedOther == RepeatedGesture(OtherSwipe) \/ RepeatedGesture(NoSwipeGesture)

NextRepeated ==
    \/ RepeatedBegin
    \/ RepeatedUpdate
    \/ RepeatedEnd
    \/ RepeatedOther

SpecRepeated == InitRepeated /\ [][NextRepeated]_vars

(***************************************************************************)
(* A controller built with the library's constructors, as the library's    *)
(* tests build them: actions made by I3Action::new and CommandAction::new  *)
(* around one connection slot, registered for one event, and one dispatch  *)
(* of a classified event.                                                  *)
(***************************************************************************)
\* The actions the lists are made of.
LibraryActions ==
    {StringifiedAction("i3", "swipe right"),
     StringifiedAction("command", "touch /tmp/swipe-right"),
     StringifiedAction("command", "'unterminated"),
     StringifiedAction("command", "")}

ActionLists == UNION {[1..n -> LibraryActions] : n \in 0..MaxActions}

InitActions ==
    /\ generation = "controller"
    /\ threshold = 0
    /\ invert_x = FALSE
    /\ invert_y = FALSE
    /\ settings = <<>>
    /\ actions \in {[e \in {ThreeFingerSwipeRight} |-> list] : list \in ActionLists}
    /\ connection \in {"None", "Some"}
    /\ dx = F(0)
    /\ dy = F(0)
    /\ pc = "call"
    /\ last \in {[op |-> "call", event |-> e] :
                    e \in {ThreeFingerSwipeRight, ThreeFingerSwipeLeft}}
    /\ swipe = NoSwipe
    /\ connects = 0
    /\ message_log = <<>>
    /\ action_events = <<>>

\* The lookup of the event and the invocation of its actions.
Dispatch ==
    /\ pc = "call"
    /\ \E outcomes \in OutcomesFor(IF last.event \in DOMAIN actions
                                    THEN actions[last.event] ELSE <<>>, connection) :
          \E r \in {invoke_actions(Controller, last.event, outcomes)} :
              /\ last' = [op |-> "dispatch", event |-> last.event,
                          connection |-> connection,
                          dispatched |-> r.result, calls |-> r.calls]
              /\ connection' = SlotAfter(r.calls, connection)
              /\ message_log' = listener(message_log, r.calls)
              /\ pc' = IF Panicked(r.calls) THEN "panicked" ELSE "returned"
    /\ UNCHANGED <<action_events, generation, threshold, invert_x, invert_y, settings, actions,
                   dx, dy, swipe, connects>>

NextActions == Dispatch

SpecActions == InitActions /\ [][NextActions]_vars

(***************************************************************************)
(* The construction of the registry from a Settings value, as the tests of *)
(* the command line crate call it: the settings (the list configured for   *)
(* one event, the enabled action types) and the availability of the i3     *)
(* socket are drawn at the start, the call is one step.                    *)
(***************************************************************************)
\* The configured entries the lists are made of; "notify" is no ActionType.
ConfiguredActions ==
    {StringifiedAction("i3", "swipe right"),
     StringifiedAction("command", "touch /tmp/swipe-right"),
     StringifiedAction("notify", "swipe")}

ConfiguredLists == UNION {[1..n -> ConfiguredActions] : n \in 0..MaxActions}

InitSetup ==
    /\ generation \in {"controller", "processor"}
    /\ threshold = 0
    /\ invert_x = FALSE
    /\ invert_y = FALSE
    /\ settings \in {[e \in EventsOf(generation) |->
                         IF e = ThreeFingerSwipeRight THEN list ELSE <<>>] :
                        list \in ConfiguredLists}
    /\ actions = <<>>
    /\ connection = "None"
    /\ dx = F(0)
    /\ dy = F(0)
    /\ pc = "call"
    /\ last \in {[op |-> "call", enabled_action_types |-> t, connect_ok |-> b] :
                    t \in SUBSET {"i3", "command"}, b \in BOOLEAN}
    /\ swipe = NoSwipe
    /\ connects = 0
    /\ message_log = <<>>
    /\ action_events = <<>>

\* extract_action_map(&settings)
ExtractActionMap ==
    /\ pc = "call"
    /\ \E version \in VersionAnswers(settings, last.connect_ok),
          info_enabled \in InfoLevels(generation, settings, last.connect_ok) :
          \E r \in {extract_action_map_of(generation, settings, last.connect_ok,
                                          version, info_enabled)} :
             /\ actions' = r.actions
             /\ connection' = r.connection
             /\ connects' = connects + r.connects
             /\ message_log' = message_log \o r.requests
             /\ pc' = IF r.panicked THEN "panicked" ELSE "returned"
             /\ last' = [op |-> "extract_action_map",
                         enabled_action_types |-> last.enabled_action_types,
                         connect_ok |-> last.connect_ok,
                         version |-> version,
                         info_enabled |-> info_enabled]
    /\ UNCHANGED <<action_events, generation, threshold, invert_x, invert_y, settings, dx, dy, swipe>>

NextSetup == ExtractActionMap

SpecSetup == InitSetup /\ [][NextSetup]_vars

(***************************************************************************)
(* A controller with one i3 action for each of the eight swipes, talking   *)
(* to a listener that stores the commands it receives, and a row of calls  *)
(* of receive_end_event, as test_i3_swipe_actions makes them.              *)
(***************************************************************************)
\* "swipe left 3", "swipe up 4", ...: the command configured for an event.
SwipeCommand(e) ==
    "swipe "
    \o (CASE e.direction = "Left" -> "left" [] e.direction = "Right" -> "right"
         [] e.direction = "Up" -> "up" [] OTHER -> "down")
    \o (IF e.fingers = "ThreeFinger" THEN " 3" ELSE " 4")

SwipeSettingsActions ==
    [e \in AxisActionEvent |-> <<StringifiedAction("i3", SwipeCommand(e))>>]

\* The displacements of the calls: along an axis, or none.
SwipeVectors ==
    {<<F(MaxCoord), F(0)>>, <<F(-MaxCoord), F(0)>>, <<F(0), F(MaxCoord)>>,
     <<F(0), F(-MaxCoord)>>, <<F(0), F(0)>>}

InitSwipes ==
    /\ generation = "controller"
    /\ threshold = 5
    /\ invert_x = FALSE
    /\ invert_y = FALSE
    /\ settings = SwipeSettingsActions
    /\ actions = extract_action_map(SwipeSettingsActions, AxisActionEvent, TRUE, "success").actions
    /\ connection = "Some"
    /\ dx = F(0)
    /\ dy = F(0)
    /\ pc = "call"
    /\ last = [op |-> "calls", history |-> <<>>]
    /\ swipe = NoSwipe
    /\ connects = 1
    \* ActionMap::new names conn.get_version() only among the arguments of
    \* info!, which are not evaluated while no logger is set: the test
    \* receives no version request
    /\ message_log = <<>>
    /\ action_events = <<>>

\* action_map.receive_end_event(dx, dy, finger_count).ok()
ReceiveEndEvent ==
    /\ pc = "call"
    /\ Len(last.history) < MaxEnds
    /\ \E v \in SwipeVectors, n \in FingerCounts :
          LET c == end_event_to_action_event(Controller, v[1], v[2], n)
              list == IF c.tag = "Ok" /\ c.value \in DOMAIN actions
                      THEN actions[c.value] ELSE <<>>
          IN  \E outcomes \in OutcomesFor(list, connection) :
                 \E r \in {receive_end_event(Controller, v[1], v[2], n, outcomes)} :
                     /\ message_log' = listener(message_log, r.calls)
                     /\ connection' = SlotAfter(r.calls, connection)
                     /\ last' = [op |-> "calls",
                                 history |-> Append(last.history,
                                     [dx |-> v[1], dy |-> v[2], finger_count |-> n,
                                      action_event |-> r.action_event,
                                      result |-> r.result, calls |-> r.calls])]
    /\ UNCHANGED <<action_events, generation, threshold, invert_x, invert_y, settings, actions,
                   dx, dy, pc, swipe, connects>>

NextSwipes == ReceiveEndEvent

SpecSwipes == InitSwipes /\ [][NextSwipes]_vars

(***************************************************************************)
(* The settings of the application: action strings, the sources of the     *)
(* configuration, their merge and the pruning of the action lists.         *)
(* A string that is parsed is a sequence of pieces of text: the piece ":"  *)
(* is a colon, the other pieces before the first ":" hold no colon.        *)
(***************************************************************************)
\* The text of a sequence of pieces.
RECURSIVE Str(_)
Str(s) == IF Len(s) = 0 THEN "" ELSE Head(s) \o Str(Tail(s))

\* The pieces of a text that is written into a string as it is.
Pieces(text) == IF text = "" THEN <<>> ELSE <<text>>

\* A split at the last delimiter (str::rsplit_once).
rsplit_once(s, delimiter) ==
    IF \A i \in 1..Len(s) : s[i] # delimiter THEN None
    ELSE LET i == CHOOSE k \in 1..Len(s) :
                     s[k] = delimiter /\ \A j \in (k + 1)..Len(s) : s[j] # delimiter
         IN  Some(<<SubSeq(s, 1, i - 1), SubSeq(s, i + 1, Len(s))>>)

\* str::split_once: the text before and after the first delimiter.
split_once(s, delimiter) ==
    IF \A i \in 1..Len(s) : s[i] # delimiter THEN None
    ELSE LET i == CHOOSE k \in 1..Len(s) :
                     s[k] = delimiter /\ \A j \in 1..(k - 1) : s[j] # delimiter
         IN  Some(<<SubSeq(s, 1, i - 1), SubSeq(s, i + 1, Len(s))>>)

\* ActionType::VARIANTS
ActionType_VARIANTS == {"i3", "command"}

\* clap::Error::raw(ErrorKind::ValueValidation, message)
ValueValidation(message) == [tag |-> "ValueValidation", message |-> message]

\* <StringifiedAction as FromStr>::from_str
StringifiedAction_from_str(s) ==
    LET parts == split_once(s, ":")
    IN  IF ~parts.some \/ Len(parts.value[2]) = 0 \/ Len(parts.value[1]) = 0
        THEN ValueValidation(
                 "The value does not conform to the action string pattern")
        ELSE LET action_type == Str(parts.value[1])
                 action_command == Str(parts.value[2])
             IN  IF action_type \in ActionType_VARIANTS
                 THEN Ok(StringifiedAction(action_type, action_command))
                 ELSE ValueValidation("The value does not start with a valid action")

\* <StringifiedAction as Display>::fmt: "{type_}:{command}"
StringifiedAction_to_string(self) ==
    Pieces(self.type_) \o <<":">> \o Pieces(self.command)

\* Settings::default()
Settings_default ==
    [seat |-> "seat0", enabled_action_types |-> <<"i3">>, threshold |-> 20,
     actions |-> DefaultSettingsActions]

\* The action lists of a source, as lists of strings.
StringLists(lists) ==
    [e \in DOMAIN lists |->
        [i \in 1..Len(lists[e]) |-> StringifiedAction_to_string(lists[e][i])]]

\* <Settings as Source>::collect: every option is present.
Settings_collect(self) ==
    [seat |-> Some(self.seat),
     enabled_action_types |-> Some(self.enabled_action_types),
     threshold |-> Some(self.threshold),
     actions |-> StringLists(self.actions)]

\* <Opts as Source>::collect: the options given on the command line.
Opts_collect(self) ==
    [seat |-> self.seat,
     enabled_action_types |-> self.enabled_action_types,
     threshold |-> self.threshold,
     actions |-> StringLists(self.actions)]

\* A merge in which the earlier source keeps the keys it has.
add_source_first_wins(lower, upper) ==
    [seat |-> IF lower.seat.some THEN lower.seat ELSE upper.seat,
     enabled_action_types |-> IF lower.enabled_action_types.some
                              THEN lower.enabled_action_types
                              ELSE upper.enabled_action_types,
     threshold |-> IF lower.threshold.some THEN lower.threshold ELSE upper.threshold,
     actions |-> [e \in DOMAIN lower.actions \cup DOMAIN upper.actions |->
                     IF e \in DOMAIN lower.actions
                     THEN lower.actions[e] ELSE upper.actions[e]]]

\* Config::builder().add_source(lower).add_source(upper): a key of the
\* later source replaces the key of the earlier one.
add_source(lower, upper) ==
    [seat |-> IF upper.seat.some THEN upper.seat ELSE lower.seat,
     enabled_action_types |-> IF upper.enabled_action_types.some
                              THEN upper.enabled_action_types
                              ELSE lower.enabled_action_types,
     threshold |-> IF upper.threshold.some THEN upper.threshold ELSE lower.threshold,
     actions |-> [e \in DOMAIN lower.actions \cup DOMAIN upper.actions |->
                     IF e \in DOMAIN upper.actions
                     THEN upper.actions[e] ELSE lower.actions[e]]]

\* merged_config.try_deserialize::<Settings>(): every action string goes
\* through StringifiedAction::try_from(String).
try_deserialize(merged_config) ==
    LET parsed == [e \in DOMAIN merged_config.actions |->
                      [i \in 1..Len(merged_config.actions[e]) |->
                          StringifiedAction_from_str(merged_config.actions[e][i])]]
    IN  IF \E e \in DOMAIN parsed : \E i \in 1..Len(parsed[e]) : parsed[e][i].tag # "Ok"
        THEN [tag |-> "ConfigError"]
        ELSE Ok([seat |-> merged_config.seat.value,
                 enabled_action_types |-> merged_config.enabled_action_types.value,
                 threshold |-> merged_config.threshold.value,
                 actions |-> [e \in DOMAIN parsed |->
                                 [i \in 1..Len(parsed[e]) |-> parsed[e][i].value]]])

\* enabled_action_types.contains(&entry.type_)
contains(enabled_action_types, type_) ==
    \E i \in 1..Len(enabled_action_types) : enabled_action_types[i] = type_

\* A pruning that empties a list that holds a disabled action.
prune_whole_list(enabled_action_types, value) ==
    IF \E i \in 1..Len(value) : ~contains(enabled_action_types, value[i].type_)
    THEN <<>> ELSE value

\* The pruning of one action list: value.retain(...) if an entry is not
\* of an enabled type.
prune(enabled_action_types, value) ==
    IF \E i \in 1..Len(value) : ~contains(enabled_action_types, value[i].type_)
    THEN SelectSeq(value, LAMBDA x : contains(enabled_action_types, x.type_))
    ELSE value

\* The error of log::set_logger.
SetLoggerError == [tag |-> "SetLoggerError"]

\* setup_application(opts, initialize_logging), with the configuration file
\* that is read and whether the logger can be set: the settings before and
\* after the pruning, whether the parsing failed and the defaults were
\* taken, and the result, which is the error of setup_logging if the logger
\* is to be initialized and cannot be set.
setup_application(opts, file, initialize_logging, logger_ok) ==
    LET merged_config == add_source(add_source(Settings_collect(Settings_default), file),
                                    Opts_collect(opts))
        deserialized == try_deserialize(merged_config)
        merged_settings == IF deserialized.tag = "Ok" THEN deserialized.value
                           ELSE Settings_default
        final_settings ==
            [merged_settings EXCEPT !.actions =
                [e \in DOMAIN merged_settings.actions |->
                    prune(merged_settings.enabled_action_types,
                          merged_settings.actions[e])]]
    IN  [final_settings |-> final_settings, merged_settings |-> merged_settings,
         reverted |-> deserialized.tag # "Ok",
         result |-> IF initialize_logging /\ ~logger_ok THEN SetLoggerError
                    ELSE Ok(final_settings)]

(***************************************************************************)
(* The start of the application: setup_application on the command line and *)
(* the configuration file, then extract_action_map on the settings.        *)
(***************************************************************************)
FourFingerSwipeRight == EventName("FourFinger", "Right")

\* The action lists given on the command line (parsed by clap).
OptsActions ==
    {<<>>,
     ThreeFingerSwipeLeft :> <<StringifiedAction("i3", "left_from_cli")>>,
     ThreeFingerSwipeLeft :> <<StringifiedAction("command", "bar"),
                               StringifiedAction("i3", "3left")>>,
     EventName("ThreeFinger", "LeftUp") :> <<StringifiedAction("i3", "3left-up")>>}

OptsChoices ==
    [seat : {None, Some("some.seat")},
     enabled_action_types : {None, Some(<<"i3">>), Some(<<"i3", "command">>)},
     threshold : {None, Some(99)},
     actions : OptsActions]

\* The [actions] tables of the configuration file.
FileActions ==
    {<<>>,
     (ThreeFingerSwipeRight :> << <<"i3", ":", "foo">> >>)
        @@ (ThreeFingerSwipeLeft :> <<>>)
        @@ (FourFingerSwipeRight :> << <<"i3", ":", "bar">>, <<"command", ":", "baz">> >>),
     (ThreeFingerSwipeRight :> << <<"i3", ":", "right_from_config">> >>)
        @@ (ThreeFingerSwipeLeft :> << <<"i3", ":", "left_from_config">> >>),
     ThreeFingerSwipeRight :> << <<"invalid">> >>,
     ThreeFingerSwipeLeft :> << <<"invalid", ":", "bar">> >>,
     FourFingerSwipeRight :> << <<"command", ":", "echo a", ":", "b">>,
                                <<"i3", ":", "bar">> >>}

\* The configuration file; the file that is absent sets no option.
FileChoices ==
    [seat : {None, Some("seat.from.config")},
     enabled_action_types : {None, Some(<<"i3">>), Some(<<"command">>), Some(<<>>)},
     threshold : {None, Some(42)},
     actions : FileActions]

InitApplication ==
    /\ generation = "processor"
    /\ threshold = 0
    /\ invert_x = FALSE
    /\ invert_y = FALSE
    /\ settings = <<>>
    /\ actions = <<>>
    /\ connection = "None"
    /\ dx = F(0)
    /\ dy = F(0)
    /\ pc = "main"
    /\ last \in {[op |-> "main", opts |-> o, file |-> f, connect_ok |-> b] :
                    o \in OptsChoices, f \in FileChoices, b \in BOOLEAN}
    /\ swipe = NoSwipe
    /\ connects = 0
    /\ message_log = <<>>
    /\ action_events = <<>>

\* main(), up to the processor: setup_application(opts, true), whose error
\* is logged and answered with Settings::default(); then
\* DefaultProcessor::new(settings.threshold, &settings.seat), whose error is
\* logged and ends the process before extract_action_map is called.
SetupApplication ==
    /\ pc = "main"
    /\ \E logger_ok \in BOOLEAN, seat_ok \in BOOLEAN :
          \E r \in {setup_application(last.opts, last.file, TRUE, logger_ok)} :
             LET used == IF r.result.tag = "Ok" THEN r.result.value
                         ELSE Settings_default
             IN  /\ settings' = used.actions
                 /\ threshold' = used.threshold
                 /\ last' = [op |-> "setup_application", opts |-> last.opts,
                             file |-> last.file, final_settings |-> r.final_settings,
                             merged_settings |-> r.merged_settings,
                             reverted |-> r.reverted,
                             result |-> r.result,
                             settings |-> used,
                             processor |-> IF seat_ok THEN OkUnit
                                           ELSE [tag |-> "SeatError"],
                             enabled_action_types |->
                                 {used.enabled_action_types[i] :
                                     i \in 1..Len(used.enabled_action_types)},
                             connect_ok |-> last.connect_ok]
                 /\ pc' = IF seat_ok THEN "call" ELSE "exit"
    /\ UNCHANGED <<action_events, message_log, generation, invert_x, invert_y, actions, connection,
                   dx, dy, swipe, connects>>

NextApplication == SetupApplication \/ ExtractActionMap

SpecApplication == InitApplication /\ [][NextApplication]_vars

(***************************************************************************)
(* The parsing of one action string, as clap and serde call it on an       *)
(* argument or on an entry of the configuration file.                      *)
(***************************************************************************)
\* The pieces the strings are made of.
ActionStringPieces == {":", "i3", "command", "invalid", "foo"}

ActionStrings == UNION {[1..n -> ActionStringPieces] : n \in 0..MaxPieces}

InitParse ==
    /\ generation = "processor"
    /\ threshold = 0
    /\ invert_x = FALSE
    /\ invert_y = FALSE
    /\ settings = <<>>
    /\ actions = <<>>
    /\ connection = "None"
    /\ dx = F(0)
    /\ dy = F(0)
    /\ pc = "call"
    /\ last \in {[op |-> "call", s |-> s] : s \in ActionStrings}
    /\ swipe = NoSwipe
    /\ connects = 0
    /\ message_log = <<>>
    /\ action_events = <<>>

\* StringifiedAction::from_str(s)
FromStr ==
    /\ pc = "call"
    /\ pc' = "returned"
    /\ last' = [op |-> "from_str", s |-> last.s,
                result |-> StringifiedAction_from_str(last.s)]
    /\ UNCHANGED <<action_events, message_log, generation, threshold, invert_x, invert_y, settings,
                   actions, connection, dx, dy, swipe, connects>>

NextParse == FromStr

SpecParse == InitParse /\ [][NextParse]_vars

(***************************************************************************)
(* Properties of the running program (specification Spec).                 *)
(***************************************************************************)
\* The last step was the processing of a swipe End.
AtEnd == last.op = "process_event" /\ last.kind = "End"

\* The ActionEvent that the last step dispatched to the registered actions:
\* in the "controller" generation the processing of an End that was
\* classified, in the "processor" generation the controller's handling of an
\* ActionEvent that DefaultProcessor::dispatch returned.
DispatchedEvent ==
    IF last.op = "process_action_event" THEN Ok(last.action_event)
    ELSE IF last.op = "process_event" /\ last.kind = "End" /\ generation = "controller"
    THEN last.classified
    ELSE NotClassified

\* The last step was a dispatch.
AtDispatch == DispatchedEvent.tag = "Ok"

\* The actions on which execute_command was called, in the order of the calls.
Executed == [i \in 1..Len(last.calls) |-> last.calls[i].action]

SumSquares(fdx, fdy) == fdx.mag * fdx.mag + fdy.mag * fdy.mag

\* C1: when an ActionEvent whose registered list is found is dispatched and
\* no action aborts the thread, execute_command is called on every action of
\* the list exactly once, in registration order, whatever the earlier
\* actions returned, and the dispatch returns Ok(()).
C1_DispatchRunsWholeList ==
    (AtDispatch /\ DispatchedEvent.value \in DOMAIN actions /\ ~Panicked(last.calls))
    => /\ Executed = actions[DispatchedEvent.value]
       /\ last.dispatched = OkUnit

\* A dispatch whose first action failed and whose second action was executed.
C1_Witness ==
    /\ AtDispatch
    /\ Len(last.calls) = 2
    /\ last.calls[1].result.tag = "ExecutionError"
    /\ last.calls[2].result = OkUnit
    /\ last.calls[2].spawned = <<"touch", "/tmp/swipe-right">>
    /\ Executed = actions[DispatchedEvent.value]
    /\ last.dispatched = OkUnit

\* The event processed is an End whose finger count is 3 or 4 and whose
\* accumulated displacement has a magnitude of at least the threshold.
QualifyingEnd ==
    /\ last.kind = "End"
    /\ last.finger_count \in {3, 4}
    /\ (threshold <= 0 \/ SumSquares(last.dx, last.dy) >= threshold * threshold)

\* The processing of an event yields an ActionEvent or executes an action
\* only if the event is a qualifying End; the two sequences of the claim
\* yield no ActionEvent and execute nothing.
OnlyQualifyingEndsYield ==
    /\ (last.op = "process_event" /\ (last.calls # <<>> \/ last.classified.tag = "Ok"))
        => QualifyingEnd
    /\ (AtEnd /\ threshold = 5 /\ last.finger_count = 3
            /\ last.swipe = [begun |-> TRUE, dx |-> 3, dy |-> 0])
        => (last.calls = <<>> /\ last.classified.tag # "Ok")
    /\ (AtEnd /\ last.finger_count = 5)
        => (last.calls = <<>> /\ last.classified.tag # "Ok")

\* The ActionEvents that dispatch collects are those its Ends yield, and the
\* controller invokes actions for the first of them only.
OnlyYieldedAreDispatched ==
    /\ action_events' # action_events
        => \/ /\ last'.op = "process_event"
              /\ last'.classified.tag = "Ok"
              /\ action_events' = Append(action_events, last'.classified.value)
           \/ /\ last'.op = "process_action_event"
              /\ action_events' = Tail(action_events)
    /\ (pc = "actions" /\ last'.op = "process_action_event")
        => (action_events # <<>> /\ last'.action_event = Head(action_events))

\* C2: an action is executed only in response to an End whose finger count
\* is 3 or 4 and whose accumulated displacement has a magnitude of at least
\* the threshold; Begin; Update(3, 0); End(3) under threshold 5 executes
\* nothing, and an End with 5 fingers executes nothing.
C2_ExecutionOnlyAtQualifyingEnd ==
    []OnlyQualifyingEndsYield /\ [][OnlyYieldedAreDispatched]_vars

\* Begin; Update(3, 0); End(3) under threshold 5, with actions registered for
\* the three-finger swipe right: nothing was executed.
C2_Witness ==
    /\ AtEnd
    /\ threshold = 5
    /\ last.finger_count = 3
    /\ last.swipe = [begun |-> TRUE, dx |-> 3, dy |-> 0]
    /\ ~invert_x
    /\ ThreeFingerSwipeRight \in DOMAIN actions
    /\ actions[ThreeFingerSwipeRight] # <<>>
    /\ last.calls = <<>>
    /\ action_events = <<>>

\* C9: at the End of a swipe Begin; Update(u1); ...; Update(un); End, the
\* displacement handed to the classifier is the component-wise sum of
\* u1..un, whatever was processed before the Begin.
C9_DisplacementIsSumOfUpdates ==
    (AtEnd /\ last.swipe.begun)
    => /\ Val(last.dx) = last.swipe.dx
       /\ Val(last.dy) = last.swipe.dy

\* The End of a swipe whose updates sum to (2, -1).
C9_Witness ==
    /\ AtEnd
    /\ last.swipe = [begun |-> TRUE, dx |-> 2, dy |-> -1]
    /\ last.dx = F(2)
    /\ last.dy = F(-1)

\* The controller of the "processor" generation was handed an ActionEvent
\* that the action map has no entry for.
UnknownLookup ==
    last.op = "process_action_event" /\ last.action_event \notin DOMAIN actions

\* C10: once the action map is built from the settings, it has an entry for
\* every ActionEvent of the build, and no lookup made for a classified event
\* fails. (No map is built if the process exits for the seat or if
\* get_version().unwrap() panics during the construction.)
C10_RegistryTotal ==
    (pc # "setup" /\ last.op # "new" /\ ~(last.op = "setup" /\ pc = "panicked"))
    => /\ \A e \in EventsOf(generation) : e \in DOMAIN actions
       /\ (last.op \in {"process_event", "process_action_event"}
              => last.dispatched.tag # "NoActionsRegistered")

\* C11: the dispatch of an ActionEvent whose registered list is empty
\* executes no action, returns Ok(()), and leaves the registry and the
\* connection slot as they were.
C11_EmptyListDispatch ==
    [][(/\ pc \in {"events", "actions"}
        /\ AtDispatch'
        /\ DispatchedEvent'.value \in DOMAIN actions
        /\ actions[DispatchedEvent'.value] = <<>>)
       => /\ last'.calls = <<>>
          /\ last'.dispatched = OkUnit
          /\ actions' = actions
          /\ connection' = connection]_vars

\* The dispatch of an event registered with an empty list, in a registry
\* that has actions for other events and holds a connection.
C11_Witness ==
    /\ AtDispatch
    /\ DispatchedEvent.value \in DOMAIN actions
    /\ actions[DispatchedEvent.value] = <<>>
    /\ \E e \in DOMAIN actions : actions[e] # <<>>
    /\ connection = "Some"
    /\ last.calls = <<>>
    /\ last.dispatched = OkUnit

\* C14: the connection slot is written during the construction of the
\* registry only: no later step (poll, event processing, action execution,
\* successful or failed) changes what it holds, and none calls connect(), so
\* a slot left empty by a failed connect stays empty.
C14_SlotWrittenOnlyAtSetup ==
    [][pc # "setup" => (connection' = connection /\ connects' = connects)]_vars

\* An i3 action failed on a transport error and the slot still holds the
\* connection.
C14_Witness ==
    /\ AtDispatch
    /\ Len(last.calls) > 0
    /\ last.calls[1].action.type_ = "i3"
    /\ last.calls[1].outcome = "transport_error"
    /\ last.calls[1].result.tag = "ExecutionError"
    /\ connection = "Some"
    /\ connects = 1

\* An action of type "i3" is configured for some event.
I3Configured ==
    \E e \in DOMAIN settings : \E i \in DOMAIN settings[e] : settings[e][i].type_ = "i3"

\* C15: I3Connection::connect() is called at most once in a run, and only
\* if an action of type "i3" is configured; when none is configured there is
\* no connect and the slot stays empty.
C15_ConnectAtMostOnceAndOnlyForI3 ==
    /\ connects <= 1
    /\ connects = 1 => I3Configured
    /\ ~I3Configured => (connects = 0 /\ connection = "None")

\* A run without any i3 action that has executed a command: no connect was
\* made.
C15_Witness ==
    /\ AtDispatch
    /\ ~I3Configured
    /\ Len(last.calls) > 0
    /\ last.calls[1].result = OkUnit
    /\ connects = 0
    /\ connection = "None"

\* C16: the main loop, once entered, ends only when poll or
\* input.dispatch() returns an error, which is what the loop returns; the
\* processing of an event and the dispatch of an ActionEvent, whatever
\* their result (classification error, unsupported swipe event, missing
\* registration, failed action), leave the loop running. (The loop is not
\* entered if the setup ends the process; what the controller of the
\* "processor" generation does with an ActionEvent that has no entry is not
\* known and not judged here.)
C16_LoopEndsOnlyOnPollError ==
    /\ (/\ pc \notin {"setup", "poll", "events", "actions"}
        /\ last.op # "setup"
        /\ ~UnknownLookup)
       => /\ pc = "exit"
          /\ \/ last.op = "poll" /\ last.result.tag = "MainLoopError"
             \/ last.op = "new"
    /\ last.op = "process_event" => pc = "events"
    /\ (last.op = "process_action_event" /\ ~UnknownLookup)
       => pc \in {"actions", "poll"}

\* C19: a swipe event that is none of Begin, Update, End makes process_event
\* return UnsupportedSwipeEvent; the displacement is unchanged, no
\* ActionEvent is produced, no action is executed, and the loop goes on with
\* the next event.
C19_UnsupportedSwipeEvent ==
    [][(pc = "events" /\ last'.op = "process_event" /\ last'.kind = "OtherSwipe")
       => /\ last'.result = [tag |-> "UnsupportedSwipeEvent"]
          /\ dx' = dx
          /\ dy' = dy
          /\ last'.classified = NotClassified
          /\ action_events' = action_events
          /\ last'.calls = <<>>
          /\ pc' = "events"]_vars

\* An unknown swipe event in the middle of a swipe that has moved.
C19_Witness ==
    /\ last.op = "process_event"
    /\ last.kind = "OtherSwipe"
    /\ last.result = [tag |-> "UnsupportedSwipeEvent"]
    /\ swipe.begun
    /\ Val(dx) = 2 /\ Val(dy) = -1
    /\ pc = "events"

\* A call of the classifier at an End whose displacement (signed zeros
\* told apart) and finger count are those of the earlier call kept; the
\* threshold and the flags of the processor are those of the earlier call.
RepeatedCall ==
    /\ last.op = "process_event" /\ last.kind = "End"
    /\ last.repeated
    /\ last.call.dx = last.earlier_call.dx
    /\ last.call.dy = last.earlier_call.dy
    /\ last.call.finger_count = last.earlier_call.finger_count

C27_EndLeavesDisplacement ==
    AtEnd => (dx = last.dx /\ dy = last.dy)

\* The End of a swipe of (3, 0) that was classified and whose first action
\* failed: the displacement is still (3, 0).
C27_Witness ==
    /\ AtEnd
    /\ last.classified.tag = "Ok"
    /\ Len(last.calls) > 0
    /\ last.calls[1].result.tag = "ExecutionError"
    /\ last.dx = F(3) /\ dx = F(3)
    /\ dy = last.dy

\* An End processed by main_loop through DefaultController::process_event
\* was classified as an event that the action map has no entry for.
UnregisteredEnd ==
    /\ generation = "controller"
    /\ last.op = "process_event" /\ last.kind = "End"
    /\ last.classified.tag = "Ok"
    /\ last.classified.value \notin DOMAIN actions

\* C29: when the event an End is classified as has no entry in the action
\* map of the controller, receive_end_event returns NoActionsRegistered
\* carrying the event, no action is executed, nothing is sent to the i3
\* endpoint, nothing panics, and main_loop goes on with the next event,
\* the displacement left as it was.
C29_NoActionsRegistered ==
    [][(pc = "events" /\ UnregisteredEnd')
       => /\ last'.dispatched = [tag |-> "NoActionsRegistered",
                                 event |-> last'.classified.value]
          /\ last'.result = last'.dispatched
          /\ last'.calls = <<>>
          /\ message_log' = message_log
          /\ connection' = connection
          /\ pc' = "events"
          /\ dx' = dx /\ dy' = dy]_vars

\* A three-finger swipe to the right on a controller built with an empty
\* action map, as the tests of the controller build it.
C29_Witness ==
    /\ UnregisteredEnd
    /\ settings = EmptySettingsActions
    /\ actions = EmptySettingsActions
    /\ threshold = 2
    /\ last.swipe = [begun |-> TRUE, dx |-> 3, dy |-> 0]
    /\ last.finger_count = 3
    /\ last.dispatched = [tag |-> "NoActionsRegistered", event |-> ThreeFingerSwipeRight]
    /\ pc = "events"

(***************************************************************************)
(* Properties of the octant classifier (specification SpecClassifier).     *)
(***************************************************************************)
\* The classifier was called and has returned.
Classified == last.op = "classify"

\* The displacement passed to the classifier has a magnitude below the
\* threshold.
BelowThreshold == threshold > 0 /\ SumSquares(last.dx, last.dy) < threshold * threshold

Supported == last.finger_count \in {3, 4}

NoInversion == ~invert_x /\ ~invert_y

\* The classifier returned the event of the finger count and the direction.
Returned(direction) ==
    Supported /\ last.result = Ok(EventName(FingerNames[last.finger_count], direction))

\* C3: for every finger count other than 3 and 4, whatever the displacement,
\* the threshold and the inversion, the classifier returns
\* UnsupportedFingerCount carrying that finger count.
C3_UnsupportedFingerCount ==
    (Classified /\ ~Supported)
    => last.result = [tag |-> "UnsupportedFingerCount",
                      finger_count |-> last.finger_count]

\* Five fingers and a displacement below the threshold: the finger count is
\* what the error reports.
C3_Witness ==
    /\ Classified
    /\ last.finger_count = 5
    /\ BelowThreshold
    /\ last.result = [tag |-> "UnsupportedFingerCount", finger_count |-> 5]

\* C4 (as stated): every displacement whose magnitude is below the threshold
\* is answered by DisplacementBelowThreshold carrying the threshold, whatever
\* the finger count.
C4_BelowThresholdAnyFingerCount ==
    (Classified /\ BelowThreshold)
    => last.result = [tag |-> "DisplacementBelowThreshold", threshold |-> threshold]

\* C4 (amended): every displacement whose magnitude is below the threshold
\* is answered by DisplacementBelowThreshold carrying the threshold when the
\* finger count is 3 or 4, and by UnsupportedFingerCount otherwise.
C4_BelowThresholdSupportedFingerCount ==
    (Classified /\ BelowThreshold)
    => IF Supported
       THEN last.result = [tag |-> "DisplacementBelowThreshold", threshold |-> threshold]
       ELSE last.result.tag = "UnsupportedFingerCount"

\* Three fingers, a displacement of (1, 1) and a threshold of 2.
C4_Witness ==
    /\ Classified
    /\ last.finger_count = 3
    /\ Val(last.dx) = 1 /\ Val(last.dy) = 1
    /\ threshold = 2
    /\ last.result = [tag |-> "DisplacementBelowThreshold", threshold |-> 2]

\* C5: without inversion, an axis-aligned displacement of magnitude at least
\* the threshold, with 3 or 4 fingers, is a swipe right for dx > 0, left for
\* dx < 0, up for dy < 0 and down for dy > 0.
C5_AxisAligned ==
    (Classified /\ NoInversion /\ Supported /\ ~BelowThreshold)
    => /\ (Val(last.dx) > 0 /\ Val(last.dy) = 0) => Returned("Right")
       /\ (Val(last.dx) < 0 /\ Val(last.dy) = 0) => Returned("Left")
       /\ (Val(last.dx) = 0 /\ Val(last.dy) < 0) => Returned("Up")
       /\ (Val(last.dx) = 0 /\ Val(last.dy) > 0) => Returned("Down")

\* Four fingers moved up by the threshold exactly.
C5_Witness ==
    /\ Classified /\ NoInversion
    /\ last.finger_count = 4
    /\ threshold > 0
    /\ Val(last.dx) = 0 /\ Val(last.dy) = -threshold
    /\ Returned("Up")

\* The unit steps of the eight compass directions on the screen (x grows to
\* the right, y grows downwards), in the order of the octants.
CompassVectors ==
    <<(<<-1, 0>>), (<<-1, -1>>), (<<0, -1>>), (<<1, -1>>),
      (<<1, 0>>), (<<1, 1>>), (<<0, 1>>), (<<-1, 1>>)>>

\* The vector (x, y) is less than 22.5 degrees away from the direction c:
\* cos^2 of the angle exceeds cos^2(22.5 deg) = (2 + sqrt 2) / 4.
WithinSector(x, y, c) ==
    LET dot == x * c[1] + y * c[2]
        b == (x * x + y * y) * (c[1] * c[1] + c[2] * c[2])
        a == 4 * dot * dot - 2 * b
    IN  dot > 0 /\ a > 0 /\ a * a > 2 * b * b

\* C6: without inversion, a displacement other than zero that passes the
\* checks falls in the 45-degree octant centred on one compass direction, the
\* octants being numbered 0..7 for Left, LeftUp, Up, RightUp, Right,
\* RightDown, Down, LeftDown, and the classifier returns that direction; the
\* exact diagonals (-s, -s), (s, -s), (s, s), (-s, s) are LeftUp, RightUp,
\* RightDown, LeftDown.
C6_OctantDirections ==
    (Classified /\ NoInversion /\ Supported /\ ~BelowThreshold
        /\ (Val(last.dx) # 0 \/ Val(last.dy) # 0))
    => /\ \E k \in 0..7 :
            /\ WithinSector(Val(last.dx), Val(last.dy), CompassVectors[k + 1])
            /\ get_event_octant(last.dx, last.dy) = k
            /\ Returned(Directions[k + 1])
       /\ \A s \in 1..MaxCoord :
            /\ (Val(last.dx) = -s /\ Val(last.dy) = -s) => Returned("LeftUp")
            /\ (Val(last.dx) = s /\ Val(last.dy) = -s) => Returned("RightUp")
            /\ (Val(last.dx) = s /\ Val(last.dy) = s) => Returned("RightDown")
            /\ (Val(last.dx) = -s /\ Val(last.dy) = s) => Returned("LeftDown")

\* A displacement of (-2, 1), nearer to the diagonal than to the axis.
C6_Witness ==
    /\ Classified /\ NoInversion
    /\ Val(last.dx) = -2 /\ Val(last.dy) = 1
    /\ Returned("LeftDown")

\* C7: the classifier never reaches the catch-all arm of the octant table:
\* every call returns an error of the two checks or an ActionEvent, and the
\* octant of every displacement is in 0..7.
C7_OctantInRange ==
    Classified
    => /\ last.result # Panic
       /\ last.result.tag \in {"Ok", "UnsupportedFingerCount", "DisplacementBelowThreshold"}
       /\ last.result.tag = "Ok" => last.result.value \in ActionEvent
       /\ get_event_octant(last.dx, last.dy) \in 0..7

\* A displacement whose angle rounds to 8: it is classified as octant 0.
C7_Witness ==
    /\ Classified /\ NoInversion
    /\ RoundedAngle(last.dx, last.dy) = 8
    /\ Returned("Left")

\* The result of the classifier without inversion on a negated displacement.
Uninverted(fdx, fdy) ==
    _end_event_to_action_event(
        [threshold |-> threshold, invert_x |-> FALSE, invert_y |-> FALSE],
        fdx, fdy, last.finger_count)

\* C8: the result with invert_x set is the result without inversion on
\* (-dx, dy), the result with invert_y set is the result without inversion on
\* (dx, -dy), both flags negate both; so whether the call fails does not
\* depend on the flags, and a swipe to the right becomes, with invert_x, a
\* swipe to the left.
C8_InversionNegatesInput ==
    Classified
    => /\ last.result = Uninverted(IF invert_x THEN FNeg(last.dx) ELSE last.dx,
                                   IF invert_y THEN FNeg(last.dy) ELSE last.dy)
       /\ (last.result.tag = "Ok") = (Uninverted(last.dx, last.dy).tag = "Ok")
       /\ (Supported /\ ~BelowThreshold /\ Val(last.dx) > 0 /\ Val(last.dy) = 0)
          => IF invert_x THEN Returned("Left") ELSE Returned("Right")

\* Both flags set: a displacement to the right and down is a swipe LeftUp.
C8_Witness ==
    /\ Classified
    /\ invert_x /\ invert_y
    /\ Val(last.dx) = 3 /\ Val(last.dy) = 3
    /\ Returned("LeftUp")

(***************************************************************************)
(* Properties of the actions (specification SpecActions).                  *)
(***************************************************************************)
Dispatched == last.op = "dispatch"

\* The list registered for the dispatched event.
DispatchedList ==
    IF last.event \in DOMAIN actions THEN actions[last.event] ELSE <<>>

\* C12: with an empty connection slot, every I3Action invoked returns the
\* ExecutionError of type "i3" saying that the connection is not set; it does
\* not abort the thread, the action after it is invoked, and a CommandAction
\* of the same list that is invoked returns what it returns on its own.
C12_NoConnectionIsAnError ==
    (Dispatched /\ last.connection = "None")
    => \A i \in 1..Len(last.calls) :
          /\ last.calls[i].action.type_ = "i3"
             => /\ last.calls[i].result =
                      [tag |-> "ExecutionError", type_ |-> "i3",
                       message |-> "i3 connection is not set"]
                /\ i < Len(DispatchedList) => Len(last.calls) > i
          /\ (last.calls[i].action.type_ = "command"
                /\ last.calls[i].action.command = "touch /tmp/swipe-right")
             => last.calls[i].result =
                   IF last.calls[i].outcome = "spawned" THEN OkUnit
                   ELSE [tag |-> "ExecutionError", type_ |-> "command",
                         message |-> "os error"]

\* The list [i3, command] with an empty slot: the i3 action failed and the
\* command was run.
C12_Witness ==
    /\ Dispatched
    /\ last.connection = "None"
    /\ Len(last.calls) = 2
    /\ last.calls[1].action.type_ = "i3"
    /\ last.calls[1].result.tag = "ExecutionError"
    /\ last.calls[2].action = StringifiedAction("command", "touch /tmp/swipe-right")
    /\ last.calls[2].result = OkUnit

(***************************************************************************)
(* Properties of the registry construction (specification SpecSetup).      *)
(***************************************************************************)
Extracted == last.op = "extract_action_map"

IsCommand(a) == a.type_ = "command"

\* C13: when the connect was attempted and failed, no I3 action is created:
\* the list registered for each configured event is the list of its
\* configured entries of type "command", in the configured order, whatever
\* the enabled action types of the settings are.
C13_NoI3ActionWithoutConnection ==
    (Extracted /\ needs_connection(settings) /\ ~last.connect_ok)
    => /\ connection = "None"
       /\ \A e \in DOMAIN settings :
             /\ e \in DOMAIN actions
             /\ actions[e] = SelectSeq(settings[e], IsCommand)

\* The list [i3, command] with only "i3" enabled and no i3 socket: one action
\* is registered.
C13_Witness ==
    /\ Extracted
    /\ ~last.connect_ok
    /\ last.enabled_action_types = {"i3"}
    /\ settings[ThreeFingerSwipeRight] =
          <<StringifiedAction("i3", "swipe right"),
            StringifiedAction("command", "touch /tmp/swipe-right")>>
    /\ Len(actions[ThreeFingerSwipeRight]) = 1
    /\ actions[ThreeFingerSwipeRight][1].type_ = "command"

\* C17: a CommandAction whose command cannot be split into words, or splits
\* into no word, returns an ExecutionError of type "command"; the thread is
\* not aborted and the next action of the list is invoked.
C17_UnsplittableCommandIsAnError ==
    Dispatched
    => \A i \in 1..Len(last.calls) :
          (last.calls[i].action.type_ = "command"
             /\ last.calls[i].action.command \in {"'unterminated", ""})
          => /\ last.calls[i].result.tag = "ExecutionError"
             /\ last.calls[i].result.type_ = "command"
             /\ i < Len(DispatchedList) => Len(last.calls) > i

\* C18: with a connection in the slot, an I3Action returns Ok(()) exactly
\* when the command was transmitted and every outcome of the reply reports
\* success; a reply with a failed outcome gives the ExecutionError
\* "unsuccessful outcome(s)", a transport error gives an ExecutionError with
\* the text of the transport error; the slot holds the connection afterwards.
C18_I3ActionOutcomes ==
    (Dispatched /\ last.connection = "Some")
    => /\ connection = "Some"
       /\ \A i \in 1..Len(last.calls) :
             last.calls[i].action.type_ = "i3"
             => /\ (last.calls[i].result = OkUnit) = (last.calls[i].outcome = "success")
                /\ last.calls[i].outcome = "unsuccessful"
                   => last.calls[i].result =
                         [tag |-> "ExecutionError", type_ |-> "i3",
                          message |-> "unsuccessful outcome(s)"]
                /\ last.calls[i].outcome \in RunCommandErrors
                   => last.calls[i].result =
                         [tag |-> "ExecutionError", type_ |-> "i3",
                          message |-> "transport error"]

\* Two i3 actions on a connection: the first got a failed outcome, the second
\* a transport error, and the slot still holds the connection.
C18_Witness ==
    /\ Dispatched
    /\ last.connection = "Some"
    /\ Len(last.calls) = 2
    /\ last.calls[1].action.type_ = "i3" /\ last.calls[1].outcome = "unsuccessful"
    /\ last.calls[1].result.message = "unsuccessful outcome(s)"
    /\ last.calls[2].action.type_ = "i3" /\ last.calls[2].outcome = "transport_error"
    /\ last.calls[2].result.tag = "ExecutionError"
    /\ connection = "Some"

(***************************************************************************)
(* Properties of a row of calls against the listener (SpecSwipes).         *)
(***************************************************************************)
\* The End of a call was classified, and its event has one i3 action.
ClassifiedEnd(h) ==
    /\ h.action_event.tag = "Ok"
    /\ h.action_event.value \in DOMAIN SwipeSettingsActions

\* The commands of the classified Ends of the calls, in the order of the
\* calls.
RECURSIVE CommandsOfEnds(_)
CommandsOfEnds(history) ==
    IF Len(history) = 0 THEN <<>>
    ELSE (IF ClassifiedEnd(Head(history))
          THEN <<SwipeCommand(Head(history).action_event.value)>> ELSE <<>>)
         \o CommandsOfEnds(Tail(history))

\* The calls whose request reached the endpoint, or that made no request.
Reached(h) == ~ClassifiedEnd(h) \/ h.calls[1].outcome \in Received

\* Each classified End makes exactly one call of execute_command, an End
\* that is not classified makes none.
OneCallPerEnd ==
    \A i \in 1..Len(last.history) :
        IF ClassifiedEnd(last.history[i])
        THEN Len(last.history[i].calls) = 1
        ELSE Len(last.history[i].calls) = 0

\* C21 as stated: for a row of End events classified to events with one
\* registered i3 action, the endpoint receives exactly one command per End,
\* in the order of the Ends.
C21_ExactlyOneCommandPerEnd ==
    last.op = "calls"
    => /\ message_log = CommandsOfEnds(last.history)
       /\ OneCallPerEnd

\* C21, amended: for a row of End events classified to events with one
\* registered i3 action, each End makes exactly one call of execute_command
\* (no retry, whatever the reply), and the endpoint receives the commands
\* of the Ends whose request reaches it, one each, in the order of the
\* Ends: all of them if every request reaches it, and none for an End whose
\* run_command fails before the endpoint has the request.
C21_CommandsInOrderOfEnds ==
    last.op = "calls"
    => /\ message_log = CommandsOfEnds(SelectSeq(last.history, Reached))
       /\ (\A i \in 1..Len(last.history) : Reached(last.history[i]))
          => message_log = CommandsOfEnds(last.history)
       /\ OneCallPerEnd

\* Two calls, as the first two of the test: (d, 0) then (-d, 0) with three
\* fingers; the endpoint received the second command and run_command failed
\* on the reply; the log holds the two commands in the order of the calls.
C21_Witness ==
    /\ last.op = "calls"
    /\ Len(last.history) = 2
    /\ Val(last.history[1].dx) > 0 /\ last.history[1].finger_count = 3
    /\ Val(last.history[2].dx) < 0 /\ last.history[2].finger_count = 3
    /\ last.history[1].calls[1].outcome = "success"
    /\ last.history[2].calls[1].outcome = "reply_error"
    /\ last.history[2].result = OkUnit
    /\ message_log = <<"swipe right 3", "swipe left 3">>

(***************************************************************************)
(* Properties of the start of the application (SpecApplication).           *)
(***************************************************************************)
SetUp == last.op = "setup_application"

\* The entries of a list that are of an enabled type, in their order.
EnabledEntries(list) ==
    SelectSeq(list, LAMBDA x :
        \E i \in 1..Len(last.final_settings.enabled_action_types) :
            last.final_settings.enabled_action_types[i] = x.type_)

\* C22: after setup_application, the action list of every event is made of
\* exactly the entries of the merged list whose type is in
\* enabled_action_types, in their order, and the other options are the
\* merged ones; the registry built from these settings holds no action of a
\* type that is not enabled.
C22_PrunedToEnabledTypes ==
    /\ (SetUp /\ last.result.tag = "Ok")
       => /\ last.result.value = last.final_settings
          /\ last.settings = last.final_settings
          /\ DOMAIN settings = DOMAIN last.merged_settings.actions
          /\ \A e \in DOMAIN settings :
                settings[e] = EnabledEntries(last.merged_settings.actions[e])
          /\ last.final_settings.enabled_action_types
                = last.merged_settings.enabled_action_types
    /\ Extracted
       => \A e \in DOMAIN actions : \A i \in 1..Len(actions[e]) :
             actions[e][i].type_ \in last.enabled_action_types

\* The configuration file of test_config_file: with only "i3" enabled,
\* ["i3:bar", "command:baz"] has become ["i3:bar"].
C22_Witness ==
    /\ SetUp
    /\ last.result.tag = "Ok"
    /\ last.final_settings.enabled_action_types = <<"i3">>
    /\ last.merged_settings.actions[FourFingerSwipeRight]
          = <<StringifiedAction("i3", "bar"), StringifiedAction("command", "baz")>>
    /\ settings[FourFingerSwipeRight] = <<StringifiedAction("i3", "bar")>>

\* The value of an option by precedence: command line, else configuration
\* file, else default.
Preferred(option) ==
    IF last.opts[option].some THEN last.opts[option].value
    ELSE IF last.file[option].some THEN last.file[option].value
    ELSE Settings_default[option]

\* The texts of the action strings of a list.
Texts(strings) == [i \in 1..Len(strings) |-> Str(strings[i])]

\* The action strings of an event by precedence.
PreferredStrings(e) ==
    IF e \in DOMAIN last.opts.actions THEN StringLists(last.opts.actions)[e]
    ELSE IF e \in DOMAIN last.file.actions THEN last.file.actions[e]
    ELSE StringLists(Settings_default.actions)[e]

ConfiguredEvents ==
    DOMAIN Settings_default.actions \cup DOMAIN last.file.actions
        \cup DOMAIN last.opts.actions

\* Every option of the settings the application goes on with (the action
\* lists before the pruning) has the value of the source of highest
\* precedence that sets it.
PrecedencePerOption ==
    /\ last.settings.seat = Preferred("seat")
    /\ last.settings.threshold = Preferred("threshold")
    /\ threshold = Preferred("threshold")
    /\ last.settings.enabled_action_types = Preferred("enabled_action_types")
    /\ last.settings = last.final_settings
    /\ DOMAIN last.merged_settings.actions = ConfiguredEvents
    /\ \A e \in ConfiguredEvents :
          Texts(StringLists(last.merged_settings.actions)[e]) = Texts(PreferredStrings(e))

\* An action string that takes part in the merge does not parse.
MalformedActionString ==
    \E e \in ConfiguredEvents : \E i \in 1..Len(PreferredStrings(e)) :
        StringifiedAction_from_str(PreferredStrings(e)[i]).tag # "Ok"

\* C23 (as stated): every option takes the command line value if given, else
\* the value of the configuration file if present, else the default.
C23_PrecedencePerOption == SetUp => PrecedencePerOption

\* C23 (amended): when every action string that takes part in the merge
\* parses and the logger can be set, every option takes the command line
\* value if given, else the value of the configuration file if present, else
\* the default, the list of each event on its own; when one of the strings
\* does not parse, or when setup_application fails because the logger
\* cannot be set, every option (those given on the command line included)
\* takes its default.
C23_PrecedenceWhenParsed ==
    SetUp
    => /\ last.reverted = MalformedActionString
       /\ (~MalformedActionString /\ last.result.tag = "Ok") => PrecedencePerOption
       /\ MalformedActionString => last.merged_settings = Settings_default
       /\ last.result.tag # "Ok"
          => /\ last.settings = Settings_default
             /\ threshold = Settings_default.threshold
             /\ settings = Settings_default.actions

\* test_config_overriding: seat and the list of the swipe right from the
\* file, threshold and the list of the swipe left from the command line,
\* the other lists from the defaults.
C23_Witness ==
    /\ SetUp
    /\ last.result.tag = "Ok"
    /\ last.file.seat = Some("seat.from.config") /\ ~last.opts.seat.some
    /\ last.file.threshold = Some(42) /\ last.opts.threshold = Some(99)
    /\ last.final_settings.seat = "seat.from.config"
    /\ threshold = 99
    /\ settings[ThreeFingerSwipeRight] = <<StringifiedAction("i3", "right_from_config")>>
    /\ settings[ThreeFingerSwipeLeft] = <<StringifiedAction("i3", "left_from_cli")>>
    /\ settings[EventName("ThreeFinger", "Up")] = <<>>

(***************************************************************************)
(* Properties of the parsing of an action string (SpecParse).              *)
(***************************************************************************)
Parsed == last.op = "from_str"

HasColon(s) == \E i \in 1..Len(s) : s[i] = ":"

\* The position of the first ':' of a string that has one.
FirstColon(s) == CHOOSE i \in 1..Len(s) : s[i] = ":" /\ \A j \in 1..(i - 1) : s[j] # ":"

BeforeColon(s) == Str(SubSeq(s, 1, FirstColon(s) - 1))

AfterColon(s) == Str(SubSeq(s, FirstColon(s) + 1, Len(s)))

\* The string has a ':' with text before and after the first one.
ConformsToPattern(s) == HasColon(s) /\ BeforeColon(s) # "" /\ AfterColon(s) # ""

\* C24: from_str(s) succeeds exactly when s has a ':' with text before and
\* after the first ':' and the text before it is "i3" or "command"; then
\* type_ is the text before the first ':' and command all the text after
\* it. A string without ':' or with an empty side gives the error "does not
\* conform to the action string pattern", a string with another type the
\* error "does not start with a valid action".
C24_FromStr ==
    Parsed
    => /\ (last.result.tag = "Ok")
            = (ConformsToPattern(last.s) /\ BeforeColon(last.s) \in {"i3", "command"})
       /\ last.result.tag = "Ok"
          => last.result.value
                = [type_ |-> BeforeColon(last.s), command |-> AfterColon(last.s)]
       /\ ~ConformsToPattern(last.s)
          => last.result = [tag |-> "ValueValidation",
                            message |-> "The value does not conform to the action string pattern"]
       /\ (ConformsToPattern(last.s) /\ BeforeColon(last.s) \notin {"i3", "command"})
          => last.result = [tag |-> "ValueValidation",
                            message |-> "The value does not start with a valid action"]

\* "command:foo:": the command is everything after the first ':'.
C24_Witness ==
    /\ Parsed
    /\ last.s = <<"command", ":", "foo", ":">>
    /\ last.result = Ok([type_ |-> "command", command |-> "foo:"])

(***************************************************************************)
(* Properties of the two classifiers run on the same call                  *)
(* (specification SpecClassifier).                                         *)
(***************************************************************************)
\* C25: the finger count is validated before the displacement: when the
\* finger count is neither 3 nor 4 and the magnitude is below the threshold,
\* the error is UnsupportedFingerCount carrying the finger count, not
\* DisplacementBelowThreshold, in the octant classifier and in the
\* axis-dominance classifier alike.
C25_FingerCountCheckedFirst ==
    (Classified /\ ~Supported /\ BelowThreshold)
    => /\ last.result = UnsupportedFingerCount(last.finger_count)
       /\ last.result.tag # "DisplacementBelowThreshold"
       /\ last.axis_result = UnsupportedFingerCount(last.finger_count)

\* Two fingers that did not move, with a threshold of 5.
C25_Witness ==
    /\ Classified
    /\ last.finger_count = 2
    /\ threshold = 5
    /\ last.dx.mag = 0 /\ last.dy.mag = 0
    /\ last.result = [tag |-> "UnsupportedFingerCount", finger_count |-> 2]
    /\ last.axis_result = last.result

\* The magnitude of the displacement is exactly the threshold.
AtThreshold == SumSquares(last.dx, last.dy) = threshold * threshold

\* C26: the comparison with the threshold is strict: with 3 or 4 fingers, a
\* displacement whose magnitude is the threshold exactly is classified into
\* an ActionEvent, and one is classified exactly when its magnitude is not
\* smaller than the threshold; the axis-dominance classifier also accepts an
\* axis-aligned displacement, other than zero, equal to the threshold.
C26_ThresholdIsStrict ==
    (Classified /\ Supported)
    => /\ AtThreshold => last.result.tag = "Ok"
       /\ (last.result.tag = "Ok")
             = (SumSquares(last.dx, last.dy) >= threshold * threshold)
       /\ (last.result.tag # "Ok")
             => last.result = DisplacementBelowThreshold(threshold)
       /\ (AtThreshold /\ threshold > 0 /\ (last.dx.mag = 0 \/ last.dy.mag = 0))
             => last.axis_result.tag = "Ok"

\* Threshold 5, displacement (5, 0), three fingers: a swipe right.
C26_Witness ==
    /\ Classified /\ NoInversion
    /\ threshold = 5
    /\ Val(last.dx) = 5 /\ last.dy = F(0)
    /\ last.finger_count = 3
    /\ last.result = Ok(ThreeFingerSwipeRight)

(***************************************************************************)
(* Properties of the accumulated displacement (SpecAccumulator).           *)
(***************************************************************************)
Traced == last.op = "process_event"

\* What the classifier of the generation answers for the End observed.
ClassifiedAsAccumulated ==
    last.classified
      = IF generation = "processor"
        THEN _end_event_to_action_event(Processor, last.dx, last.dy,
                                        last.event.finger_count)
        ELSE end_event_to_action_event(Controller, last.dx, last.dy,
                                       last.event.finger_count)

\* The displacement after the first i events of the batch observed, when
\* every Update is added to what is there and only a Begin resets it.
RECURSIVE AccumulatedOver(_)
AccumulatedOver(i) ==
    IF i = 0 THEN [dx |-> last.dx, dy |-> last.dy]
    ELSE LET before == AccumulatedOver(i - 1)
             event == last.events[i]
         IN  IF event.kind = "Begin" THEN [dx |-> F(0), dy |-> F(0)]
             ELSE IF event.kind = "Update"
             THEN [dx |-> FAdd(before.dx, event.dx), dy |-> FAdd(before.dy, event.dy)]
             ELSE before

\* The ActionEvents of the Ends among the first i events of the batch
\* observed, when every End classifies the displacement that is there.
RECURSIVE ClassifiedOver(_)
ClassifiedOver(i) ==
    IF i = 0 THEN <<>>
    ELSE LET before == AccumulatedOver(i - 1)
             event == last.events[i]
             c == IF event.kind = "End"
                  THEN _end_event_to_action_event(Processor, before.dx, before.dy,
                                                  event.finger_count)
                  ELSE NotClassified
         IN  IF c.tag = "Ok" THEN Append(ClassifiedOver(i - 1), c.value)
             ELSE ClassifiedOver(i - 1)

\* C28: the accumulator has no Idle or Tracking state: every Update is added
\* to the displacement that is there, whether or not a Begin came since the
\* last End; every End classifies the displacement that is there; the
\* displacement becomes (0, 0) at a Begin, and no other event than a Begin
\* or an Update changes it; so it is over a batch of events that
\* DefaultProcessor::dispatch processes in one call.
C28_NoIdleState ==
    /\ Traced
       => /\ last.event.kind = "Update"
             => /\ Val(dx) = Val(last.dx) + Val(last.event.dx)
                /\ Val(dy) = Val(last.dy) + Val(last.event.dy)
          /\ last.event.kind = "End" => ClassifiedAsAccumulated
          /\ last.event.kind = "Begin" => (dx = F(0) /\ dy = F(0))
          /\ last.event.kind \notin {"Begin", "Update"} => (dx = last.dx /\ dy = last.dy)
    /\ last.op = "dispatch"
       => /\ dx = AccumulatedOver(Len(last.events)).dx
          /\ dy = AccumulatedOver(Len(last.events)).dy
          /\ last.result = Ok(ClassifiedOver(Len(last.events)))
          /\ action_events = ClassifiedOver(Len(last.events))

\* A batch of an Update and an End that no Begin precedes since the last
\* End: the swipe itself moved by (1, 0), below the threshold of 2, on top
\* of the (2, 0) left by the previous swipe; the End is classified as a swipe
\* right of (3, 0) and its ActionEvent is returned to the controller.
C28_Witness ==
    /\ last.op = "dispatch"
    /\ last.events = <<Update(F(1), F(0)), End(3)>>
    /\ last.swipe = NoSwipe
    /\ last.dx = F(2) /\ Val(last.dy) = 0
    /\ dx = F(3)
    /\ last.result = Ok(<<ThreeFingerSwipeRight>>)
    /\ pc = "actions"

\* The event of the finger count of the call and a direction.
EventTo(direction) == Ok(EventName(FingerNames[last.finger_count], direction))

\* C30: on an axis-aligned displacement of at least the threshold, with 3
\* or 4 fingers and no inversion, the axis-dominance classifier and the
\* octant classifier return the same event for a horizontal displacement
\* (right for dx > 0, left for dx < 0) and opposite events for a vertical
\* one: for dy > 0 the axis-dominance classifier returns the swipe up and
\* the octant classifier the swipe down, for dy < 0 the other way round.
C30_AxisAndOctantClassifiers ==
    (Classified /\ Supported /\ NoInversion)
    => /\ (last.dy.mag = 0 /\ last.dx.mag > 0 /\ last.dx.mag >= threshold)
          => /\ last.result = last.axis_result
             /\ last.result = EventTo(IF Val(last.dx) > 0 THEN "Right" ELSE "Left")
       /\ (last.dx.mag = 0 /\ last.dy.mag > 0 /\ last.dy.mag >= threshold)
          => /\ last.axis_result = EventTo(IF Val(last.dy) > 0 THEN "Up" ELSE "Down")
             /\ last.result = EventTo(IF Val(last.dy) > 0 THEN "Down" ELSE "Up")

\* Four fingers, (0, 3), threshold 2: a swipe up for the axis-dominance
\* classifier, a swipe down for the octant classifier.
C30_Witness ==
    /\ Classified /\ NoInversion
    /\ last.finger_count = 4
    /\ threshold = 2
    /\ last.dx.mag = 0 /\ Val(last.dy) = 3
    /\ last.axis_result = Ok(EventName("FourFinger", "Up"))
    /\ last.result = Ok(EventName("FourFinger", "Down"))

====
